---- MODULE Spec2Model ----
(***************************************************************************)
(* Edikte-Monitor: the Gutachten analysis pipeline of main.py (clean-up    *)
(* sweep, quality check, text enrichment, vision pass) and the standalone  *)
(* enricher.py, as a state machine over the Notion record store.           *)
(*                                                                         *)
(* Text is modelled as follows.                                            *)
(*  - An owner name is a tuple of characters (one-character strings; the   *)
(*    atom "ndash" stands for the en dash).                                *)
(*  - An address is a tuple of tokens: "PLZ" (optional country letter and  *)
(*    4-5 digits), "ORT" (one capitalised word), "STR" (street and house   *)
(*    number), "," and "TEL" (the word Telefon and what follows it).       *)
(*    Tokens are separated by one blank, a comma is attached to the token  *)
(*    before it.                                                           *)
(*  - A note ('Notizen') is a tuple of the text blocks the program writes, *)
(*    one per line; which marker substrings a block contains is tabulated  *)
(*    from the literal texts in the source.                                *)
(***************************************************************************)
EXTENDS Integers, Sequences, FiniteSets, TLC

VARIABLES
    store,      \* page id -> properties of the Notion page
    doc,        \* page id -> what the edict page / its PDF is like (environment)
    llm_on,     \* OPENAI_AVAILABLE and OPENAI_API_KEY set (configuration)
    all_pages,  \* main(): _all_pages, the snapshot shared by the clean-up steps
    pc,         \* position of the running program
    to_enrich,  \* notion_enrich_gutachten: entries still to process
    to_vision,  \* notion_enrich_gescannte: entries still to process
    enr_pages,  \* enricher.main: pages still to process
    fails,      \* transport / store failures injected so far
    last,       \* what the last step did (history)
    sinceNote,  \* page id -> sweep demotions since the note last changed (history)
    known_ids,  \* main(): the edicts that have a page in the database
    caps,       \* the per-run caps of the text tier and of the vision tier
    n_text,     \* calls of gutachten_enrich_notion_page in the current run (history)
    n_vision,   \* calls of gutachten_extract_info_vision in the current run (history)
    val         \* argument and result of the pure function under study

vars == <<store, doc, llm_on, all_pages, pc, to_enrich, to_vision, enr_pages,
          fails, last, sinceNote, known_ids, caps, n_text, n_vision, val>>

\* ---------------------------------------------------------------- bounds
MaxFails == 1       \* failures (HTTP, Notion update) injected per behaviour
NoteCap == 3        \* blocks kept by the [:2000] truncation of a note
MaxSince == 2       \* cap of the history counter sinceNote
MaxSegments == 3    \* comma-separated segments of an address given to the cleaner
MaxCreditors == 3   \* entries of a creditor list given to a tier

\* ------------------------------------------------------ program constants
MAX_PER_RUN == 100
MAX_VISION == 20

Records == {"p1", "p2"}
PageOrder == <<"p1", "p2">>     \* order in which notion.search returns the pages

Min(a, b) == IF a <= b THEN a ELSE b

\* ------------------------------------------------------------ characters
UpperChars == <<"A","B","C","D","E","F","G","H","I","J","K","L","M",
                "N","O","P","Q","R","S","T","U","V","W","X","Y","Z">>
LowerChars == <<"a","b","c","d","e","f","g","h","i","j","k","l","m",
                "n","o","p","q","r","s","t","u","v","w","x","y","z">>

IsUpper(c) == \E i \in 1..Len(UpperChars) : UpperChars[i] = c
IsLower(c) == \E i \in 1..Len(LowerChars) : LowerChars[i] = c
isalpha(c) == IsUpper(c) \/ IsLower(c)
isspace(c) == c = " "

lower_char(c) ==
    IF IsUpper(c)
    THEN LowerChars[CHOOSE i \in 1..Len(UpperChars) : UpperChars[i] = c]
    ELSE c

lower(s) == [i \in 1..Len(s) |-> lower_char(s[i])]

RECURSIVE lstrip(_)
lstrip(s) == IF s # <<>> /\ isspace(Head(s)) THEN lstrip(Tail(s)) ELSE s

RECURSIVE rstrip(_)
rstrip(s) ==
    IF s # <<>> /\ isspace(s[Len(s)]) THEN rstrip(SubSeq(s, 1, Len(s) - 1)) ELSE s

strip(s) == rstrip(lstrip(s))

startswith(s, p) == Len(s) >= Len(p) /\ SubSeq(s, 1, Len(p)) = p

\* ------------------------------------------------------------ owner names
INVALID_NAMES ==
    { <<"n","i","c","h","t"," ","a","n","g","e","g","e","b","e","n">>,
      <<"u","n","b","e","k","a","n","n","t">>,
      <<"n","/","a">>,
      <<"n","o","n","e">>,
      <<"n","u","l","l">>,
      <<"-">>,
      <<"ndash">> }

\* re.match(r'^[)\\]}>]', name): the class [)\\] is ')' or '\', and the rest
\* of the pattern, "}>]", is literal text.
BracketArtefaktText(name) ==
    /\ Len(name) >= 4
    /\ name[1] \in {")", "\\"}
    /\ SubSeq(name, 2, 4) = <<"}", ">", "]">>

_clean_extracted_name(name) ==
    IF name = <<>> THEN <<>>
    ELSE IF lower(strip(name)) \in INVALID_NAMES THEN <<>>
    ELSE IF BracketArtefaktText(name)
            \/ (rstrip(name) # <<>> /\ rstrip(name)[Len(rstrip(name))] = "-")
         THEN <<>>
    ELSE IF ~ \E i \in 1..Len(name) : isalpha(name[i]) THEN <<>>
    ELSE name

\* GERICHT_RE = ^(BG |Bezirksgericht |LG |Landesgericht |HG |Handelsgericht ), IGNORECASE
GERICHT_PREFIXES ==
    { <<"b","g"," ">>,
      <<"b","e","z","i","r","k","s","g","e","r","i","c","h","t"," ">>,
      <<"l","g"," ">>,
      <<"l","a","n","d","e","s","g","e","r","i","c","h","t"," ">>,
      <<"h","g"," ">>,
      <<"h","a","n","d","e","l","s","g","e","r","i","c","h","t"," ">> }

GERICHT_RE(text) == \E p \in GERICHT_PREFIXES : startswith(lower(text), p)

\* -------------------------------------------------------------- addresses
FirstIndex(s, x) ==
    IF \E i \in 1..Len(s) : s[i] = x
    THEN CHOOSE i \in 1..Len(s) : s[i] = x /\ \A j \in 1..(i - 1) : s[j] # x
    ELSE 0

RECURSIVE rstrip_komma(_)
rstrip_komma(a) ==
    IF a # <<>> /\ a[Len(a)] = "," THEN rstrip_komma(SubSeq(a, 1, Len(a) - 1)) ELSE a

\* re.sub(r',?\s*Telefon.*$', '', adr).strip().rstrip(',')
CutTelefon(a) ==
    LET i == FirstIndex(a, "TEL")
    IN  rstrip_komma(IF i = 0 THEN a ELSE SubSeq(a, 1, i - 1))

\* re.match(r'^(?:[A-Za-z]-?)?\d{4,5}\s+\S+.*?,\s*(.+)', adr): group(1).
\* The greedy \S+ takes a one-word token together with the comma attached to
\* it, so the comma that ends the match is then the next one, if there is one.
OrtVorStrasse(a) ==
    IF Len(a) >= 2 /\ a[1] = "PLZ" /\ a[2] # ","
    THEN LET swallowed == Len(a) >= 3 /\ a[3] = "," /\ a[2] \in {"ORT", "PLZ"}
             kommas == {i \in (IF swallowed THEN 4 ELSE 3)..(Len(a) - 1) : a[i] = ","}
         IN  IF kommas # {}
             THEN LET i == CHOOSE i \in kommas : \A j \in kommas : i <= j
                  IN  SubSeq(a, i + 1, Len(a))
             ELSE IF swallowed /\ Len(a) > 3 THEN SubSeq(a, 4, Len(a))
             ELSE a
    ELSE a

\* re.sub(r',\s*[A-ZÄÖÜ][a-zäöüß]+$', '', adr).strip()
CutOrtAmEnde(a) ==
    IF Len(a) >= 2 /\ a[Len(a)] = "ORT" /\ a[Len(a) - 1] = ","
    THEN SubSeq(a, 1, Len(a) - 2)
    ELSE a

_clean_extracted_adresse(adr) ==
    IF adr = <<>> THEN <<>> ELSE CutOrtAmEnde(OrtVorStrasse(CutTelefon(adr)))

\* ------------------------------------------------------------------ notes
\* The text blocks the program writes into 'Notizen':
\*   "PDF"     Gutachten-PDF: <url>
\*   "SCAN"    (Kein Text lesbar - gescanntes Dokument)
\*   "VIS"     (Via GPT-4o Vision analysiert - gescanntes Dokument)
\*   "FINAL"   (Endgueltig unleserlich - kein Eigentuemer auffindbar)
\*   "KEINPDF" Kein PDF auf Edikt-Seite verfuegbar
\*   "ENRSCAN" (Kein Grundbuch-Text lesbar - moeglicherweise gescanntes Dokument)
\*   "TOT"     Edikt-Seite nicht mehr verfuegbar (HTTP 404) - automatisch archiviert
NoteBlocks == {"PDF", "SCAN", "VIS", "FINAL", "KEINPDF", "ENRSCAN", "TOT"}

\* marker substrings of the block's text, case-sensitive
ExactMarkers(b) ==
    CASE b = "SCAN"    -> {"gescannt"}
      [] b = "VIS"     -> {"gescannt"}
      [] b = "FINAL"   -> {"kein Eigentuemer"}
      [] b = "KEINPDF" -> {"Kein PDF"}
      [] b = "ENRSCAN" -> {"gescannt"}
      [] OTHER         -> {}

\* marker substrings of the block's text after .lower()
LowerMarkers(b) ==
    CASE b = "SCAN"    -> {"gescannt", "kein text lesbar"}
      [] b = "VIS"     -> {"gescannt", "via gpt-4o vision"}
      [] b = "FINAL"   -> {"unleserlich"}
      [] b = "KEINPDF" -> {"kein pdf"}
      [] b = "ENRSCAN" -> {"gescannt"}
      [] OTHER         -> {}

InNote(note, marker) == \E i \in 1..Len(note) : marker \in ExactMarkers(note[i])
InNoteLower(note, marker) == \E i \in 1..Len(note) : marker \in LowerMarkers(note[i])
HasBlock(note, b) == \E i \in 1..Len(note) : note[i] = b

\* text[:2000]
Truncate(note) == SubSeq(note, 1, Min(Len(note), NoteCap))

GESCHUETZT_PHASEN ==
    { "In Pruefung", "Nicht relevant", "Relevant - Brief vorbereiten",
      "Brief versendet", "Gutachten analysiert", "Gekauft", "Archiviert" }


\* ------------------------------------------------------------ environment
\* What the edict page and its PDF are like:
\*   "nopdf"      the detail page lists no PDF attachment
\*   "corrupt"    fitz.open raises on the downloaded bytes
\*   "unparsable" the PDF has text on which gutachten_extract_info raises
\*   "text"       the PDF has extractable text
\*   "scan"       the PDF opens but has no extractable text
DocKinds == {"nopdf", "corrupt", "unparsable", "text", "scan"}

NAME_OK    == <<"A", "b">>
NAME_NA    == <<"N", "/", "A">>
NAME_COURT == <<"B", "G", " ", "X">>

CandNames == { <<>>, NAME_OK, NAME_NA, NAME_COURT }
CandAdrs  == { <<>>, <<"STR">>, <<"TEL">> }

\* result dict of the extractors: eigentuemer_name, eigentuemer_adresse, and
\* whether the list 'glaeubiger' is non-empty
Cand == [name : CandNames, adr : CandAdrs, gl : BOOLEAN]
EmptyCand == [name |-> <<>>, adr |-> <<>>, gl |-> FALSE]

\* answers gutachten_extract_info_llm can give ({} on any error)
LlmResults(d) == IF d \in {"text", "scan", "unparsable"} THEN Cand ELSE {EmptyCand}
\* results of gutachten_extract_info (no text, no match)
RegexResults(d) == IF d = "text" THEN Cand ELSE {EmptyCand}
\* answers gutachten_extract_info_vision can give ({} when the PDF does not open)
VisionResults(d) == IF d \in {"text", "scan", "unparsable"} THEN Cand ELSE {EmptyCand}
\* results of enricher.extract_grundbuch_info
EnricherResults(d) == IF d \in {"text", "unparsable"} THEN Cand ELSE {EmptyCand}

\* ------------------------------------------------------------------ pages
Page(a, v, ph, l, d) ==
    [analysiert |-> a, vp |-> v, adr |-> <<>>, note |-> <<>>, phase |-> ph,
     archiviert |-> FALSE, link |-> l, dl |-> d]

\* pages as the scraper creates them, as a user sets them up by hand, and as
\* earlier script versions left them (court name as owner, analysed but empty)
InitPages ==
    { Page(FALSE, <<>>, "Neu eingelangt", TRUE, d) : d \in BOOLEAN }
    \cup { Page(TRUE, NAME_COURT, "Neu eingelangt", TRUE, FALSE),
           Page(TRUE, <<>>, "Neu eingelangt", TRUE, FALSE),
           Page(FALSE, <<>>, "In Pruefung", TRUE, FALSE),
           Page(FALSE, <<>>, "Neu eingelangt", FALSE, TRUE) }

HasIdentity(p) == strip(p.vp) # <<>> \/ p.adr # <<>>

ANALYZED_COMPLETE(p)   == p.analysiert /\ HasIdentity(p)
UNREADABLE(p)          ==
    p.analysiert /\ ~HasIdentity(p)
    /\ (HasBlock(p.note, "KEINPDF") \/ HasBlock(p.note, "FINAL"))
ANALYZED_INCOMPLETE(p) == p.analysiert /\ ~HasIdentity(p) /\ ~UNREADABLE(p)
NOT_ANALYZED(p)        == ~p.analysiert

NoLast ==
    [op |-> "init", rec |-> "-", out |-> "-", ident |-> FALSE,
     complete |-> FALSE, wrote |-> {}, tried |-> {}, fixed |-> {}]

\* a page no pass ever selects: archived by hand, without a link
InertPage == Page(FALSE, <<>>, "Archiviert", FALSE, FALSE)

NoVal == [fn |-> "-", kind |-> "-", arg |-> <<>>, res |-> <<>>, res2 |-> <<>>]

\* one page under analysis, next to it a page that is out of every pass
Init ==
    /\ store \in {st \in [Records -> InitPages \cup {InertPage}] :
                    st["p1"] \in InitPages /\ st["p2"] = InertPage}
    /\ doc \in {d \in [Records -> DocKinds] : d["p2"] = "nopdf"}
    /\ known_ids = Records
    /\ caps = [text |-> MAX_PER_RUN, vision |-> MAX_VISION]
    /\ n_text = 0
    /\ n_vision = 0
    /\ val = NoVal
    /\ llm_on \in BOOLEAN
    /\ all_pages = store
    /\ pc = "idle"
    /\ to_enrich = <<>>
    /\ to_vision = <<>>
    /\ enr_pages = <<>>
    /\ fails = 0
    /\ last = NoLast
    /\ sinceNote = [r \in Records |-> 0]

\* history counter: sweep demotions of a page since its note last changed
NewSince(st, demoted) ==
    [r \in Records |->
        IF st[r].note # store[r].note THEN 0
        ELSE IF r \in demoted THEN Min(sinceNote[r] + 1, MaxSince)
        ELSE sinceNote[r]]

Demoted(st, S) == {r \in S : store[r].analysiert /\ ~st[r].analysiert}

\* ------------------------------------------------------------ main(): load
\* _all_pages = notion_load_all_pages(notion, db_id)
StartRun ==
    /\ pc = "idle"
    /\ all_pages' = store
    /\ pc' = "reset"
    /\ last' = [NoLast EXCEPT !.op = "load"]
    /\ n_text' = 0
    /\ n_vision' = 0
    /\ UNCHANGED <<store, doc, llm_on, to_enrich, to_vision, enr_pages, fails, sinceNote>>
    /\ UNCHANGED <<known_ids, caps, val>>

\* ------------------------------------- notion_reset_falsche_verpflichtende
reset_to_fix(page) ==
    /\ page.phase \notin GESCHUETZT_PHASEN
    /\ strip(page.vp) # <<>>
    /\ GERICHT_RE(strip(page.vp))

reset_to_reanalyze(page) ==
    /\ page.phase \notin GESCHUETZT_PHASEN
    /\ page.analysiert
    /\ page.adr = <<>>
    /\ ~ \E marker \in {"Kein PDF", "gescannt", "nicht lesbar", "kein Eigentuemer"} :
            InNote(page.note, marker)
    /\ page.link

notion_reset_falsche_verpflichtende ==
    /\ pc = "reset"
    /\ LET to_fix == {r \in Records : reset_to_fix(all_pages[r])}
           to_reanalyze ==
               {r \in Records : reset_to_reanalyze(all_pages[r]) /\ r \notin to_fix}
       IN  \E failed \in SUBSET (to_fix \cup to_reanalyze) :
             /\ fails + Cardinality(failed) <= MaxFails
             /\ fails' = fails + Cardinality(failed)
             /\ LET st == [r \in Records |->
                            IF r \in failed THEN store[r]
                            ELSE IF r \in to_fix
                                 THEN [store[r] EXCEPT !.vp = <<>>, !.analysiert = FALSE]
                            ELSE IF r \in to_reanalyze
                                 THEN [store[r] EXCEPT !.analysiert = FALSE]
                            ELSE store[r]]
                IN  /\ store' = st
                    /\ sinceNote' = NewSince(st, Demoted(st, to_reanalyze))
                    /\ last' = [NoLast EXCEPT !.op = "reset",
                                              !.wrote = (to_fix \cup to_reanalyze) \ failed,
                                              !.fixed = to_fix \ failed]
    /\ pc' = "qc"
    /\ UNCHANGED <<doc, llm_on, all_pages, to_enrich, to_vision, enr_pages>>
    /\ UNCHANGED <<known_ids, caps, n_text, n_vision, val>>

\* ---------------------------------------------------- notion_qualitaetscheck
qc_to_reset(page) ==
    /\ page.analysiert
    /\ page.phase \notin GESCHUETZT_PHASEN
    /\ ~page.archiviert
    /\ page.link
    /\ ~ ( InNoteLower(page.note, "gescannt")
           \/ InNoteLower(page.note, "kein pdf")
           \/ InNoteLower(page.note, "nicht lesbar") )
    /\ strip(page.vp) = <<>>
    /\ page.adr = <<>>

notion_qualitaetscheck ==
    /\ pc = "qc"
    /\ LET to_reset == {r \in Records : qc_to_reset(all_pages[r])}
       IN  \E failed \in SUBSET to_reset :
             /\ fails + Cardinality(failed) <= MaxFails
             /\ fails' = fails + Cardinality(failed)
             /\ LET st == [r \in Records |->
                            IF r \in to_reset \ failed
                            THEN [store[r] EXCEPT !.analysiert = FALSE]
                            ELSE store[r]]
                IN  /\ store' = st
                    /\ sinceNote' = NewSince(st, Demoted(st, to_reset))
                    /\ last' = [NoLast EXCEPT !.op = "qc", !.wrote = to_reset \ failed]
    /\ pc' = "enrich_sel"
    /\ UNCHANGED <<doc, llm_on, all_pages, to_enrich, to_vision, enr_pages>>
    /\ UNCHANGED <<known_ids, caps, n_text, n_vision, val>>


\* ------------------------------------------------- notion_enrich_gutachten
enrich_eligible(page) ==
    /\ page.phase \notin GESCHUETZT_PHASEN
    /\ page.link
    /\ ~page.analysiert

notion_enrich_gutachten ==
    /\ pc = "enrich_sel"
    /\ LET found == SelectSeq(PageOrder, LAMBDA r : enrich_eligible(store[r]))
           queue == SubSeq(found, 1, Min(Len(found), caps.text))
       IN  /\ to_enrich' = queue
           /\ pc' = IF queue = <<>> THEN "vision_sel" ELSE "enrich"
    /\ last' = [NoLast EXCEPT !.op = "enrich_select"]
    /\ UNCHANGED <<store, doc, llm_on, all_pages, to_vision, enr_pages, fails, sinceNote>>
    /\ UNCHANGED <<known_ids, caps, n_text, n_vision, val>>

\* failures that can hit one call: the HTTP requests and notion.pages.update;
\* "offline" is an outage in which the request for the edict page fails and
\* so does the notion.pages.update of the handler that reports it
Faults(withFetch, withDownload) ==
    {"none"} \cup
    ( IF fails < MaxFails
      THEN {"update"} \cup (IF withFetch THEN {"fetch", "offline"} ELSE {})
                      \cup (IF withDownload THEN {"download"} ELSE {})
      ELSE {} )

\* info after 'LLM zuerst, Regex als Fallback': the LLM answer is used when it
\* names an owner or a creditor, otherwise gutachten_extract_info decides
Infos(d) ==
    ( IF llm_on
      THEN {[used |-> TRUE, info |-> c] : c \in {x \in LlmResults(d) : x.name # <<>> \/ x.gl}}
      ELSE {} )
    \cup {[used |-> FALSE, info |-> c] : c \in RegexResults(d)}

Step(page, out, cand, complete) ==
    [page |-> page, out |-> out, cand |-> cand, complete |-> complete]

\* a variant that marks the page as analysed and leaves a note behind
error_props_marks_done(page) == [page EXCEPT !.analysiert = TRUE, !.note = <<"PDF">>]

\* properties written when the edict page or the PDF cannot be loaded or opened
error_props(page) == [page EXCEPT !.analysiert = FALSE]

\* properties written when the edict page lists no PDF
kein_pdf_props(page) == [page EXCEPT !.analysiert = TRUE, !.note = <<"KEINPDF">>]

\* a variant that adds its note to the note the page already has
result_props_keeps_note(page, info) ==
    LET name_clean == _clean_extracted_name(info.name)
        adr_clean  == _clean_extracted_adresse(info.adr)
        has_owner  == name_clean # <<>> \/ adr_clean # <<>>
    IN  [page EXCEPT !.analysiert = TRUE,
                     !.vp   = IF name_clean # <<>> THEN name_clean ELSE @,
                     !.adr  = IF adr_clean # <<>> THEN adr_clean ELSE @,
                     !.note = Truncate(@ \o (IF has_owner THEN <<"PDF">> ELSE <<"PDF", "SCAN">>))]

\* properties written after the extraction
result_props(page, info) ==
    LET name_clean == _clean_extracted_name(info.name)
        adr_clean  == _clean_extracted_adresse(info.adr)
        has_owner  == name_clean # <<>> \/ adr_clean # <<>>
    IN  [page EXCEPT !.analysiert = TRUE,
                     !.vp   = IF name_clean # <<>> THEN name_clean ELSE @,
                     !.adr  = IF adr_clean # <<>> THEN adr_clean ELSE @,
                     !.note = Truncate(IF has_owner THEN <<"PDF">> ELSE <<"PDF", "SCAN">>)]

has_owner_clean(info) ==
    _clean_extracted_name(info.name) # <<>> \/ _clean_extracted_adresse(info.adr) # <<>>

enrich_page(page, d, fault, x) ==
    IF fault = "fetch" THEN Step(error_props(page), "fetch_error", EmptyCand, FALSE)
    ELSE IF fault = "offline" THEN Step(page, "update_error", EmptyCand, FALSE)
    ELSE IF d = "nopdf" THEN
        IF fault = "update" THEN Step(page, "update_error", EmptyCand, FALSE)
        ELSE Step(kein_pdf_props(page), "no_pdf", EmptyCand, FALSE)
    ELSE IF fault = "download" THEN Step(error_props(page), "download_error", EmptyCand, FALSE)
    ELSE IF d = "corrupt" THEN
        IF fault = "update" THEN Step(page, "update_error", EmptyCand, FALSE)
        ELSE Step(error_props(page), "pdf_text_error", EmptyCand, FALSE)
    ELSE IF ~x.used /\ d = "unparsable" THEN
        IF fault = "update" THEN Step(page, "update_error", EmptyCand, FALSE)
        ELSE Step(error_props(page), "parse_error", EmptyCand, FALSE)
    ELSE IF fault = "update"
         THEN Step(page, "update_error", x.info, has_owner_clean(x.info))
         ELSE Step(result_props(page, x.info), "written", x.info, has_owner_clean(x.info))

gutachten_enrich_notion_page ==
    /\ pc = "enrich"
    /\ to_enrich # <<>>
    /\ LET r == Head(to_enrich)
       IN  \E fault \in Faults(TRUE, doc[r] # "nopdf"), x \in Infos(doc[r]) :
             LET res == enrich_page(store[r], doc[r], fault, x)
                 st  == [store EXCEPT ![r] = res.page]
             IN  /\ store' = st
                 /\ fails' = IF fault = "none" THEN fails ELSE fails + 1
                 /\ sinceNote' = NewSince(st, {})
                 /\ last' = [op |-> "enrich_page", rec |-> r, out |-> res.out,
                             ident |-> has_owner_clean(res.cand), complete |-> res.complete,
                             wrote |-> IF res.out = "update_error" THEN {} ELSE {r},
                             tried |-> {r}, fixed |-> {}]
    /\ to_enrich' = Tail(to_enrich)
    /\ pc' = IF Tail(to_enrich) = <<>> THEN "vision_sel" ELSE "enrich"
    /\ n_text' = n_text + 1
    /\ UNCHANGED <<doc, llm_on, all_pages, to_vision, enr_pages>>
    /\ UNCHANGED <<known_ids, caps, n_vision, val>>

\* ------------------------------------------------- notion_enrich_gescannte
vision_eligible(page) ==
    /\ page.analysiert
    /\ page.phase \notin GESCHUETZT_PHASEN
    /\ ~page.archiviert
    /\ page.link
    /\ ( InNoteLower(page.note, "gescannt")
         \/ InNoteLower(page.note, "kein text lesbar")
         \/ InNoteLower(page.note, "via gpt-4o vision")
         \/ InNoteLower(page.note, "unleserlich") )
    /\ strip(page.vp) = <<>>

\* entry of to_vision: page id, whether 'Gutachten-PDF: <url>' was found in
\* the note, and the note as read
VisionEntry(r) ==
    [page_id |-> r, pdf_url |-> HasBlock(store[r].note, "PDF"), notizen |-> store[r].note]

notion_enrich_gescannte ==
    /\ pc = "vision_sel"
    /\ LET found == SelectSeq(PageOrder, LAMBDA r : vision_eligible(store[r]))
           queue == IF llm_on
                    THEN [i \in 1..Min(Len(found), caps.vision) |-> VisionEntry(found[i])]
                    ELSE <<>>
       IN  /\ to_vision' = queue
           /\ pc' = IF queue = <<>> THEN "idle" ELSE "vision"
    /\ last' = [NoLast EXCEPT !.op = "vision_select"]
    /\ UNCHANGED <<store, doc, llm_on, all_pages, to_enrich, enr_pages, fails, sinceNote>>
    /\ UNCHANGED <<known_ids, caps, n_text, n_vision, val>>

\* re.sub(r'\(Kein Text lesbar[^)]*\)|\(Via GPT-4o Vision[^)]*\)', '', notizen_alt)
\* followed by the final marker
unleserlich_note(notizen_alt) ==
    Truncate(SelectSeq(notizen_alt, LAMBDA b : b \notin {"SCAN", "VIS"}) \o <<"FINAL">>)

\* the branch 'if not info.get(name) and not info.get(adresse)'
vision_found(info) == info.name # <<>> \/ info.adr # <<>>

\* re.match(r'^[)\\\]}>]', name) of the copy in notion_enrich_gescannte: the
\* class holds ')', '\', ']', '}' and '>'
BracketArtefaktVision(name) ==
    /\ name # <<>>
    /\ name[1] \in {")", "\\", "]", "}", ">"}

\* _clean_extracted_name as defined inside notion_enrich_gescannte
vision_clean_extracted_name(name) ==
    IF name = <<>> THEN <<>>
    ELSE IF lower(strip(name)) \in INVALID_NAMES THEN <<>>
    ELSE IF BracketArtefaktVision(name)
            \/ (rstrip(name) # <<>> /\ rstrip(name)[Len(rstrip(name))] = "-")
         THEN <<>>
    ELSE IF ~ \E i \in 1..Len(name) : isalpha(name[i]) THEN <<>>
    ELSE name

vision_has_owner_clean(info) ==
    vision_clean_extracted_name(info.name) # <<>>
        \/ _clean_extracted_adresse(info.adr) # <<>>

vision_props(page, info) ==
    LET name_clean == vision_clean_extracted_name(info.name)
        adr_clean  == _clean_extracted_adresse(info.adr)
    IN  [page EXCEPT !.analysiert = TRUE,
                     !.vp   = IF name_clean # <<>> THEN name_clean ELSE @,
                     !.adr  = IF adr_clean # <<>> THEN adr_clean ELSE @,
                     !.note = Truncate(<<"PDF", "VIS">>)]

vision_entry(page, entry, d, fault, info) ==
    IF ~entry.pdf_url /\ fault \in {"fetch", "offline"} THEN Step(page, "fetch_error", EmptyCand, FALSE)
    ELSE IF ~entry.pdf_url /\ d = "nopdf" THEN Step(page, "no_pdf_url", EmptyCand, FALSE)
    ELSE IF fault = "download" THEN Step(page, "download_error", EmptyCand, FALSE)
    ELSE IF ~vision_found(info) THEN
        IF fault = "update" THEN Step(page, "update_error", info, FALSE)
        ELSE Step([page EXCEPT !.note = unleserlich_note(entry.notizen)],
                  "unleserlich", info, FALSE)
    ELSE IF fault = "update" THEN Step(page, "update_error", info, TRUE)
    ELSE Step(vision_props(page, info), "written", info, TRUE)

enrich_gescannte_entry ==
    /\ pc = "vision"
    /\ to_vision # <<>>
    /\ LET entry == Head(to_vision)
           r     == entry.page_id
       IN  \E fault \in Faults(~entry.pdf_url, TRUE), info \in VisionResults(doc[r]) :
             LET res == vision_entry(store[r], entry, doc[r], fault, info)
                 st  == [store EXCEPT ![r] = res.page]
             IN  /\ store' = st
                 /\ fails' = IF fault = "none" THEN fails ELSE fails + 1
                 /\ sinceNote' = NewSince(st, {})
                 /\ n_vision' = IF res.out \in {"unleserlich", "written", "update_error"}
                                THEN n_vision + 1 ELSE n_vision
                 /\ last' = [op |-> "vision_entry", rec |-> r, out |-> res.out,
                             ident |-> vision_has_owner_clean(res.cand), complete |-> res.complete,
                             wrote |-> IF res.out \in {"unleserlich", "written"}
                                       THEN {r} ELSE {},
                             tried |-> {r}, fixed |-> {}]
    /\ to_vision' = Tail(to_vision)
    /\ pc' = IF Tail(to_vision) = <<>> THEN "idle" ELSE "vision"
    /\ UNCHANGED <<doc, llm_on, all_pages, to_enrich, enr_pages>>
    /\ UNCHANGED <<known_ids, caps, n_text, val>>


\* ------------------------------------------------------------- enricher.py
\* load_flagged_pages: 'Gutachten automatisch herunterladen?' set and
\* 'Gutachten analysiert?' not set
flagged(page) == page.dl /\ ~page.analysiert

load_flagged_pages ==
    /\ pc = "idle"
    /\ LET pages == SelectSeq(PageOrder, LAMBDA r : flagged(store[r]))
       IN  /\ enr_pages' = [i \in 1..Len(pages) |->
                               [page_id |-> pages[i], link |-> store[pages[i]].link]]
           /\ pc' = IF pages = <<>> THEN "idle" ELSE "enricher"
    /\ last' = [NoLast EXCEPT !.op = "enricher_load"]
    /\ UNCHANGED <<store, doc, llm_on, all_pages, to_enrich, to_vision, fails, sinceNote>>
    /\ UNCHANGED <<known_ids, caps, n_text, n_vision, val>>

\* update_notion_page(..., success=True)
enricher_props(page, info) ==
    [page EXCEPT !.analysiert = TRUE,
                 !.vp   = IF info.name # <<>> THEN info.name ELSE @,
                 !.adr  = IF info.adr # <<>> THEN info.adr ELSE @,
                 !.note = Truncate(<<"PDF">>)]

\* update_notion_page(..., success=False), then the flag and the note
enricher_scan_props(page) ==
    [page EXCEPT !.analysiert = TRUE, !.note = Truncate(<<"PDF", "ENRSCAN">>)]

enricher_has_owner(info) == info.name # <<>> \/ info.adr # <<>>

enricher_page(page, entry, d, fault, info) ==
    IF ~entry.link THEN Step(page, "no_link", EmptyCand, FALSE)
    ELSE IF fault = "fetch" THEN Step(error_props(page), "fetch_error", EmptyCand, FALSE)
    ELSE IF fault = "offline" THEN Step(page, "abort", EmptyCand, FALSE)
    ELSE IF d = "nopdf" THEN Step(page, "no_pdf", EmptyCand, FALSE)
    ELSE IF fault = "download" THEN Step(page, "download_error", EmptyCand, FALSE)
    ELSE IF d = "corrupt" THEN Step(page, "parse_error", EmptyCand, FALSE)
    ELSE IF fault = "update" THEN Step(page, "update_error", info, enricher_has_owner(info))
    ELSE IF enricher_has_owner(info) THEN Step(enricher_props(page, info), "written", info, TRUE)
    ELSE Step(enricher_scan_props(page), "written", info, FALSE)

enricher_main_page ==
    /\ pc = "enricher"
    /\ enr_pages # <<>>
    /\ LET entry == Head(enr_pages)
           r     == entry.page_id
       IN  \E fault \in Faults(entry.link, entry.link /\ doc[r] # "nopdf"),
              info \in EnricherResults(doc[r]) :
             LET res == enricher_page(store[r], entry, doc[r], fault, info)
                 st  == [store EXCEPT ![r] = res.page]
             IN  /\ store' = st
                 /\ fails' = IF fault = "none" THEN fails ELSE fails + 1
                 /\ sinceNote' = NewSince(st, {})
                 /\ last' = [op |-> "enricher_page", rec |-> r, out |-> res.out,
                             ident |-> has_owner_clean(res.cand), complete |-> res.complete,
                             wrote |-> IF res.out \in {"fetch_error", "written"}
                                       THEN {r} ELSE {},
                             tried |-> IF res.out = "no_link" THEN {} ELSE {r},
                             fixed |-> {}]
                 \* the update of the 'except' branch is not guarded: its
                 \* exception leaves the for loop and main()
                 /\ enr_pages' = IF res.out = "abort" THEN <<>> ELSE Tail(enr_pages)
                 /\ pc' = IF res.out = "abort" \/ Tail(enr_pages) = <<>>
                          THEN "idle" ELSE "enricher"
    /\ UNCHANGED <<doc, llm_on, all_pages, to_enrich, to_vision>>
    /\ UNCHANGED <<known_ids, caps, n_text, n_vision, val>>

\* ---------------------------------------------------------- specification
Next ==
    \/ StartRun
    \/ notion_reset_falsche_verpflichtende
    \/ notion_qualitaetscheck
    \/ notion_enrich_gutachten
    \/ gutachten_enrich_notion_page
    \/ notion_enrich_gescannte
    \/ enrich_gescannte_entry
    \/ load_flagged_pages
    \/ enricher_main_page

Spec == Init /\ [][Next]_vars

\* the scheduler starts main.py again and again; a started program runs on
FairSpec == Spec /\ WF_vars(Next) /\ SF_vars(StartRun)

\* ------------------------------------------------- the pure functions
SeqsUpTo(S, n) == UNION {[1..k -> S] : k \in 0..n}

\* addresses: up to MaxSegments segments joined by commas
AdrSegments == { <<"PLZ", "ORT">>, <<"STR">>, <<"ORT">>, <<"TEL">> }

RECURSIVE JoinKomma(_)
JoinKomma(segs) ==
    IF segs = <<>> THEN <<>>
    ELSE IF Len(segs) = 1 THEN segs[1]
    ELSE segs[1] \o <<",">> \o JoinKomma(Tail(segs))

AdrInputs == {JoinKomma(segs) : segs \in SeqsUpTo(AdrSegments, MaxSegments)}

NameInputs ==
    CandNames \cup { <<")", "}", ">", "]", "x">>, <<"]", "x">>, <<"M", "a", "-">>,
                     <<"1", ".">>, <<" ", "N", "/", "A", " ">>, <<"ndash">> }

\* creditor names: a firm, optionally followed by its registry number "(FN ...)"
FnTokens == {"(FN 1a)", "(FN 2b)"}
\* entries that are no creditors, by their telling token:
\*   "...."                 dots and digits only, no letter
\*   "WEG"                  owner association ('WEG EZ 2392 KG ...', 'EG der EZ ...')
\*   "Gerichtsvollzieher"   court-enforcement officer
\*   "Aktenzeichen"         'Gemaess Aktenzeichen: 3 E 3374/24f'
\*   "geb 1954-01-18"       co-owner with birthdate
\*   "Hotel"                hospitality business
NonCreditorTokens ==
    {"....", "WEG", "Gerichtsvollzieher", "Aktenzeichen", "geb 1954-01-18", "Hotel"}
NonCreditorNames ==
    { <<"....">>, <<"WEG", "A">>, <<"Gerichtsvollzieher">>, <<"Aktenzeichen">>,
      <<"A", "geb 1954-01-18">>, <<"Hotel", "A">> }
CreditorNames ==
    { <<"A">>, <<"A", "(FN 1a)">>, <<"A", "(FN 2b)">>, <<"B">>, <<>> } \cup NonCreditorNames
CreditorInputs == SeqsUpTo(CreditorNames, MaxCreditors)

\* _gl_normalize: re.sub(r'\s*\(FN\s*\d+\w*\)', '', name).strip()
_gl_normalize(name) == SelectSeq(name, LAMBDA t : t \notin FnTokens)

\* _gb_parse_creditors: 'if len(name) > 5 and name not in seen'
RECURSIVE _gb_parse_creditors(_, _)
_gb_parse_creditors(names, acc) ==
    IF names = <<>> THEN acc
    ELSE LET name == Head(names)
         IN  IF name # <<>> /\ ~ \E i \in 1..Len(acc) : acc[i] = name
             THEN _gb_parse_creditors(Tail(names), Append(acc, name))
             ELSE _gb_parse_creditors(Tail(names), acc)

\* the 'continue' branches of the 'Betreibende Partei' block: no letter, owner
\* association, officer, file reference, birthdate, hospitality business
_gl_rejected(gl) == \E i \in 1..Len(gl) : gl[i] \in NonCreditorTokens

\* gutachten_extract_info, 'Betreibende Partei' block: the filters, then
\* 'if norm not in gl_seen_norm'
RECURSIVE gl_final(_, _)
gl_final(gl_kandidaten, acc) ==
    IF gl_kandidaten = <<>> THEN acc
    ELSE LET gl == Head(gl_kandidaten)
         IN  IF gl # <<>>
                /\ ~_gl_rejected(gl)
                /\ ~ \E i \in 1..Len(acc) : _gl_normalize(acc[i]) = _gl_normalize(gl)
             THEN gl_final(Tail(gl_kandidaten), Append(acc, gl))
             ELSE gl_final(Tail(gl_kandidaten), acc)

\* _lst of gutachten_extract_info_llm and gutachten_extract_info_vision:
\* [str(v).strip() for v in val if v and str(v).strip()]
_lst(lst) == SelectSeq(lst, LAMBDA v : v # <<>>)

\* ------------------------------------------------- land-registry text
Digits == {"0", "1", "2", "3", "4", "5", "6", "7", "8", "9"}
IsDigit(c) == c \in Digits

\* the longest prefix of s made of characters of the set cls
RECURSIVE TakeWhile(_, _)
TakeWhile(s, cls) ==
    IF s # <<>> /\ Head(s) \in cls THEN <<Head(s)>> \o TakeWhile(Tail(s), cls) ELSE <<>>

MARIA_MUSTER == <<"M","a","r","i","a"," ","M","u","s","t","e","r">>
HANS_MUSTER  == <<"H","a","n","s"," ","M","u","s","t","e","r">>

\* A line of Section B, by what _gb_parse_single_owner sees in it:
\*   "ANTEIL"  '1 ANTEIL: 1/2'            contains "ANTEIL:", starts with a digit
\*   "NAME"    'Maria Muster'             none of the 'continue' tests applies
\*   "ADR"     'GEB: 1970-01-01 ADR: Hauptstrasse 5, Graz   8010'
\*   "LEER"    ''                         empty
\*   "FORTS"   'a 7321/2006 Kaufvertrag'  continuation line
\*   "STERN"   '*********'                separator
\*   "SEITE"   'Seite 1 von 3'            page footer
GbLine(k) == [k |-> k, name |-> <<>>, geb |-> "", adr |-> <<>>, plz |-> <<>>]
NameLine(name) == [GbLine("NAME") EXCEPT !.name = name]
AdrLine(geb, adr, plz) == [GbLine("ADR") EXCEPT !.geb = geb, !.adr = adr, !.plz = plz]
FillKinds == {"LEER", "FORTS", "STERN", "SEITE"}

\* the GEB/ADR line that stands under an owner's name in the register
AdrLineOf(name) ==
    IF name = MARIA_MUSTER
    THEN AdrLine("1970-01-01", <<"STR", ",", "ORT">>, <<"8010">>)
    ELSE AdrLine("1960-02-02", <<"STR">>, <<"1070">>)

\* an owner's entry in Section B: the share-marker line, gap lines that are
\* no name, the name line and, if the register has it, the GEB/ADR line
GbBlocks(gaps, fills) ==
    [ gap : gaps, fill : fills, name : {MARIA_MUSTER, HANS_MUSTER}, adr : BOOLEAN ]

block_lines(b) ==
    <<GbLine("ANTEIL")>> \o [i \in 1..b.gap |-> GbLine(b.fill)] \o <<NameLine(b.name)>>
        \o (IF b.adr THEN <<AdrLineOf(b.name)>> ELSE <<>>)

RECURSIVE section_b_lines(_)
section_b_lines(blocks) ==
    IF blocks = <<>> THEN <<>>
    ELSE block_lines(Head(blocks)) \o section_b_lines(Tail(blocks))

EmptyOwner == [name |-> <<>>, adresse |-> <<>>, plz_ort |-> <<>>, geb |-> ""]

MinOf(S) == CHOOSE x \in S : \A y \in S : x <= y

\* 'for j in range(anteil_idx + 1, min(anteil_idx + 8, len(lines)))' and
\* 'for k in range(j + 1, min(j + 4, len(lines)))': the stop values
NAME_RANGE_STOP == 8
ADR_RANGE_STOP == 4

\* _gb_parse_single_owner(lines, anteil_idx), lines counted from 1
_gb_parse_single_owner(lines, anteil_idx) ==
    LET js == { j \in (anteil_idx + 1)..Min(anteil_idx + NAME_RANGE_STOP - 1, Len(lines)) :
                  lines[j].k = "NAME" }
    IN  IF js = {} THEN EmptyOwner
        ELSE LET j  == MinOf(js)
                 ks == { k \in (j + 1)..Min(j + ADR_RANGE_STOP - 1, Len(lines)) :
                           lines[k].k = "ADR" }
             IN  IF ks = {} THEN [EmptyOwner EXCEPT !.name = lines[j].name]
                 ELSE LET a == lines[MinOf(ks)]
                      IN  [name |-> lines[j].name, adresse |-> a.adr,
                           plz_ort |-> a.plz, geb |-> a.geb]

\* 'if o["name"] not in seen_names', order kept
RECURSIVE unique_owners(_, _)
unique_owners(owners, acc) ==
    IF owners = <<>> THEN acc
    ELSE IF \E i \in 1..Len(acc) : acc[i].name = Head(owners).name
         THEN unique_owners(Tail(owners), acc)
         ELSE unique_owners(Tail(owners), Append(acc, Head(owners)))

\* " | ".join(names)
RECURSIVE JoinNamen(_)
JoinNamen(names) ==
    IF names = <<>> THEN <<>>
    ELSE IF Len(names) = 1 THEN names[1]
    ELSE names[1] \o <<" ", "|", " ">> \o JoinNamen(Tail(names))

RECURSIVE owners_from(_, _)
owners_from(lines, i) ==
    IF i > Len(lines) THEN <<>>
    ELSE IF lines[i].k # "ANTEIL" THEN owners_from(lines, i + 1)
    ELSE LET owner == _gb_parse_single_owner(lines, i)
         IN  (IF owner.name # <<>> THEN <<owner>> ELSE <<>>) \o owners_from(lines, i + 1)

_gb_parse_owner(lines) ==
    LET owners == unique_owners(owners_from(lines, 1), <<>>)
    IN  IF owners = <<>> THEN EmptyOwner
        ELSE [name    |-> JoinNamen([i \in 1..Len(owners) |-> owners[i].name]),
              adresse |-> owners[1].adresse,
              plz_ort |-> owners[1].plz_ort,
              geb     |-> owners[1].geb]

\* A line of Section C:
\*   "FUER"    'fuer Bank X AG'                        name: the creditor
\*   "HEREIN"  'Hereinbringung von EUR 150.000,--'     text: what follows 'von '
\*   "PFAND"   'PFANDRECHT Hoechstbetrag EUR 150.000'  text: what follows the words
FuerLine(name) == [k |-> "FUER", name |-> name, text |-> <<>>]
BetragLine(k, text) == [k |-> k, name |-> <<>>, text |-> text]

EUR_150_000    == <<"E","U","R"," ","1","5","0",".","0","0","0",",","-","-">>
EUR_150_000_00 == <<"E","U","R"," ","1","5","0",".","0","0","0",",","0","0">>
EUR_90_000     == <<"E","U","R"," "," ","9","0",".","0","0","0">>

\* (EUR\s+[\d\.,]+), IGNORECASE, then .strip()
betrag_match(text) ==
    IF Len(text) >= 4 /\ lower(SubSeq(text, 1, 4)) = <<"e", "u", "r", " ">>
    THEN LET rest == lstrip(SubSeq(text, 4, Len(text)))
             run  == TakeWhile(rest, Digits \cup {".", ","})
         IN  IF run = <<>> THEN <<>>
             ELSE SubSeq(text, 1, Len(text) - Len(rest) + Len(run))
    ELSE <<>>

\* _gb_parse_creditors, the amount: the first 'Hereinbringung von' line that
\* matches, else the first 'PFANDRECHT Hoechstbetrag' line that matches
_gb_parse_betrag(lines) ==
    LET hits(k) == { i \in 1..Len(lines) : lines[i].k = k /\ betrag_match(lines[i].text) # <<>> }
    IN  IF hits("HEREIN") # {} THEN betrag_match(lines[MinOf(hits("HEREIN"))].text)
        ELSE IF hits("PFAND") # {} THEN betrag_match(lines[MinOf(hits("PFAND"))].text)
        ELSE <<>>

fuer_names(lines) ==
    LET fl == SelectSeq(lines, LAMBDA l : l.k = "FUER")
    IN  [i \in 1..Len(fl) |-> fl[i].name]

\* gutachten_extract_info on a text with Section B and Section C and without
\* the words 'Verpflichtete Partei' and 'Betreibende Partei'
gb_extract_sections(text) ==
    LET o == _gb_parse_owner(section_b_lines(text.b))
    IN  [ name    |-> o.name,
          adr     |-> o.adresse,
          plz_ort |-> o.plz_ort,
          geb     |-> o.geb,
          gl      |-> _gb_parse_creditors(fuer_names(text.c), <<>>),
          betrag  |-> _gb_parse_betrag(text.c) ]

MaxOwners == 2      \* share-marker lines of a Section B
MaxGap == 8         \* lines between a share marker and the owner's name

\* the first entry with any gap, the later entries without
SectionBInputs ==
    { <<b>> \o rest : b \in GbBlocks(0..MaxGap, FillKinds),
                      rest \in SeqsUpTo(GbBlocks({0}, {"LEER"}), MaxOwners - 1) }

SectionCInputs ==
    { <<FuerLine(<<"A">>), BetragLine("HEREIN", EUR_150_000)>>,
      <<FuerLine(<<"A">>), BetragLine("HEREIN", EUR_150_000_00)>>,
      <<FuerLine(<<"A">>), FuerLine(<<"B">>), BetragLine("PFAND", EUR_90_000)>> }

\* Scenario A: one share line, 'Maria Muster', her GEB/ADR line,
\* 'fuer Bank X AG' and 'Hereinbringung von EUR 150.000,--'
ScenarioA ==
    [ b |-> << [gap |-> 0, fill |-> "LEER", name |-> MARIA_MUSTER, adr |-> TRUE] >>,
      c |-> <<FuerLine(<<"A">>), BetragLine("HEREIN", EUR_150_000)>> ]

GbInputs == [ b : SectionBInputs, c : SectionCInputs ]

\* --------------------------------------- 'Verpflichtete Partei' on one line
FRANZ_BEISPIEL == <<"F","r","a","n","z"," ","B","e","i","s","p","i","e","l">>
MUSTER_KG      == <<"M","u","s","t","e","r"," ","K","G",".">>
LINDENGASSE_3  == <<"L","i","n","d","e","n","g","a","s","s","e"," ","3">>
WIEN           == <<"W","i","e","n">>
ST_VEIT        == <<"S","t","."," ","V","e","i","t">>
PLZ_1070       == <<"1","0","7","0">>
PLZ_2000       == <<"2","0","0","0">>
PLZ_80331      == <<"8","0","3","3","1">>
PLZ_1990       == <<"1","9","9","0">>
PLZ_20095      == <<"2","0","0","9","5">>

Letters == {UpperChars[i] : i \in 1..Len(UpperChars)} \cup {LowerChars[i] : i \in 1..Len(LowerChars)}

\* s.rstrip(chars)
RECURSIVE rstrip_chars(_, _)
rstrip_chars(s, chars) ==
    IF s # <<>> /\ s[Len(s)] \in chars THEN rstrip_chars(SubSeq(s, 1, Len(s) - 1), chars) ELSE s

contains(s, p) == \E i \in 1..(Len(s) - Len(p) + 1) : SubSeq(s, i, i + Len(p) - 1) = p

\* the last part of the line: '1070 Wien', 'D-88250 Weingarten'; d: it has
\* the prefix 'D-'; ort holds no digit
PlzOrtText(part) ==
    (IF part.d THEN <<"D", "-">> ELSE <<>>) \o part.plz \o <<" ">> \o part.ort

\* ^(19|20)\d{2}$, ^(19|20)\d{3}$, ^(19|20)\d{2,3}$: 'keine Jahreszahl'
Jahreszahl(plz) == SubSeq(plz, 1, 2) \in { <<"1", "9">>, <<"2", "0">> }

\* ([A-Z...][\w\-\s]+) and .strip().rstrip('.,')
OrtClass == Letters \cup Digits \cup {"_", "-", " "}
OrtMatch(ort) == Len(ort) >= 2 /\ IsUpper(ort[1]) /\ ort[2] \in OrtClass
OrtRun(ort) == rstrip_chars(strip(<<ort[1]>> \o TakeWhile(Tail(ort), OrtClass)), {".", ","})

NoPlzOrt == [plz |-> <<>>, ort |-> <<>>]

\* _ist_plz_ort(line) for a line that is such a part
_ist_plz_ort(part) ==
    IF part.d /\ Len(part.plz) = 5 /\ strip(part.ort) # <<>>
    THEN [plz |-> part.plz, ort |-> <<"D", "-">> \o part.plz \o <<" ">> \o strip(part.ort)]
    ELSE IF Len(part.plz) \in {4, 5} /\ OrtMatch(part.ort) /\ ~Jahreszahl(part.plz)
    THEN [plz |-> part.plz, ort |-> part.plz \o <<" ">> \o OrtRun(part.ort)]
    ELSE IF ~Jahreszahl(part.plz)
    THEN [plz |-> part.plz, ort |-> part.plz]
    ELSE NoPlzOrt

\* _ist_adresszeile(line); the words with a sharp s or an umlaut are left
\* out, the lines of the model are ASCII and hold no '/'
ADRESS_WOERTER ==
    { <<"g","a","s","s","e">>, <<"w","e","g">>, <<"p","l","a","t","z">>,
      <<"a","l","l","e","e">>, <<"r","i","n","g">>, <<"z","e","i","l","e">>,
      <<"p","r","o","m","e","n","a","d","e">>, <<"s","t","r",".">>,
      <<"s","t","r","a","s","s","e">>, <<"g","r","a","b","e","n">>,
      <<"m","a","r","k","t">>, <<"a","n","g","e","r">>, <<"h","o","f">>,
      <<"a","u","e">>, <<"b","e","r","g">>, <<"d","o","r","f">> }

\* \s\d+[a-z]?$
EndsWithNumber(line) ==
    LET t == IF line # <<>> /\ isalpha(line[Len(line)])
             THEN SubSeq(line, 1, Len(line) - 1) ELSE line
        n == Len(t) - Len(rstrip_chars(t, Digits))
    IN  n >= 1 /\ Len(t) > n /\ isspace(t[Len(t) - n])

_ist_adresszeile(line) ==
    \/ \E w \in ADRESS_WOERTER : contains(lower(line), w)
    \/ EndsWithNumber(line)

InlineLines ==
    [ name   : {FRANZ_BEISPIEL, MUSTER_KG},
      street : {LINDENGASSE_3},
      last   : { p \in [d : BOOLEAN, plz : {PLZ_1070, PLZ_2000, PLZ_80331, PLZ_1990, PLZ_20095},
                             ort : {WIEN, ST_VEIT}] : p.d => Len(p.plz) = 5 } ]

\* the rest of the line after 'Verpflichtete Partei:'
LineText(line) ==
    line.name \o <<",", " ">> \o line.street \o <<",", " ">> \o PlzOrtText(line.last)

\* the loop over lines_vp for a block of this one line, 'Erste brauchbare
\* Zeile = Name': no address line follows
vp_block_name(line) ==
    LET text == LineText(line)
    IN  IF ~ \E i \in 1..Len(text) : isalpha(text[i]) THEN <<>>
        ELSE IF text[1] \in {")", "]", "}", ">"} \/ text[Len(text)] = "-" THEN <<>>
        ELSE IF _ist_plz_ort(line.last).plz # <<>> \/ _ist_adresszeile(PlzOrtText(line.last))
             THEN strip(line.name)
             ELSE rstrip_chars(text, {",", "."})

\* gutachten_extract_info on a text that is the one line 'Verpflichtete
\* Partei: <name>, <street>, <postal city>': 'Sonderfall: alles in einer
\* Zeile', else the loop over the block
vp_inline(line) ==
    LET r           == _ist_plz_ort(line.last)
        inline_name == rstrip_chars(line.name, {"."})
    IN  IF r.plz # <<>> /\ \E i \in 1..Len(inline_name) :
                              isalpha(inline_name[i]) \/ IsDigit(inline_name[i])
        THEN [name |-> inline_name, adr |-> rstrip_chars(line.street, {"."}),
              plz_ort |-> r.ort]
        ELSE [name |-> IF Len(vp_block_name(line)) > 3 THEN vp_block_name(line) ELSE <<>>,
              adr |-> <<>>, plz_ort |-> <<>>]

\* ------------------------------------------------- choice of the attachment
\* main.py: preferred
PREFERRED ==
    << <<"g","u","t","a","c","h","t","e","n">>,
       <<" ","g"," ">>,
       <<"s","a","c","h","v","e","r","s","t">>,
       <<"s","v","-">>,
       <<"/","g","-">>,
       <<"g"," ">> >>

\* enricher.py: preferred_keywords
PREFERRED_KEYWORDS ==
    << <<"g","u","t","a","c","h","t","e","n">>,
       <<" ","g"," ">>,
       <<"s","a","c","h","v","e","r","s","t">>,
       <<"s","v","-">>,
       <<"/","g","-">>,
       <<"g"," ">> >>

ANLAGEN == <<"a","n","l","a","g","e","n">>

\* file names of attachments: 'Gutachten.pdf', 'Anlagen.pdf', 'ANLAGEN Gutachten.pdf', 'Plan.pdf', 'SV-Befund.pdf', 'anlagen2.pdf'
GUTACHTEN_PDF == <<"G","u","t","a","c","h","t","e","n",".","p","d","f">>
ANLAGEN_PDF == <<"A","n","l","a","g","e","n",".","p","d","f">>
ANLAGEN_GA_PDF == <<"A","N","L","A","G","E","N"," ","G","u","t","a","c","h","t","e","n",".","p","d","f">>
PLAN_PDF == <<"P","l","a","n",".","p","d","f">>
SV_PDF == <<"S","V","-","B","e","f","u","n","d",".","p","d","f">>
ANLAGEN_2_PDF == <<"a","n","l","a","g","e","n","2",".","p","d","f">>
Filenames == {GUTACHTEN_PDF, ANLAGEN_PDF, ANLAGEN_GA_PDF, PLAN_PDF, SV_PDF, ANLAGEN_2_PDF}

MaxPdfs == 3        \* attachments of an edict page

any_kw(filename, keywords) ==
    \E i \in 1..Len(keywords) : contains(lower(filename), keywords[i])

\* 'for pdf in pdfs: if ...: return pdf' as the position of the entry returned,
\* 0 if the loop ends without a return
RECURSIVE first_with_kw(_, _, _)
first_with_kw(pdfs, keywords, i) ==
    IF i > Len(pdfs) THEN 0
    ELSE IF any_kw(pdfs[i], keywords) THEN i
    ELSE first_with_kw(pdfs, keywords, i + 1)

RECURSIVE first_without_anlagen(_, _)
first_without_anlagen(pdfs, i) ==
    IF i > Len(pdfs) THEN 0
    ELSE IF ~contains(lower(pdfs[i]), ANLAGEN) THEN i
    ELSE first_without_anlagen(pdfs, i + 1)

\* main.py gutachten_pick_best_pdf: the position of the entry returned in the
\* list of file names, 0 for None
gutachten_pick_best_pdf(pdfs) ==
    IF first_with_kw(pdfs, PREFERRED, 1) # 0 THEN first_with_kw(pdfs, PREFERRED, 1)
    ELSE IF first_without_anlagen(pdfs, 1) # 0 THEN first_without_anlagen(pdfs, 1)
    ELSE IF pdfs # <<>> THEN 1 ELSE 0

\* a selection that takes the first attachment whatever its name
pick_first_pdf(pdfs) == IF pdfs # <<>> THEN 1 ELSE 0

\* enricher.py pick_gutachten_pdf
pick_gutachten_pdf(pdfs) ==
    IF first_with_kw(pdfs, PREFERRED_KEYWORDS, 1) # 0
    THEN first_with_kw(pdfs, PREFERRED_KEYWORDS, 1)
    ELSE IF first_without_anlagen(pdfs, 1) # 0 THEN first_without_anlagen(pdfs, 1)
    ELSE IF pdfs # <<>> THEN 1 ELSE 0

PdfInputs == SeqsUpTo(Filenames, MaxPdfs)

MaxLinesC == 3      \* lines of a Section C
EUR_DASH == <<"E","U","R"," ","-","-">>

\* Sections C in every order of their lines; 'EUR --' is an amount the
\* pattern does not match
SectionCLines ==
    { FuerLine(<<"A">>), FuerLine(<<"B">>), BetragLine("HEREIN", EUR_150_000),
      BetragLine("PFAND", EUR_90_000), BetragLine("HEREIN", EUR_DASH) }
SectionCOrders == SeqsUpTo(SectionCLines, MaxLinesC)

Applied(fn, kind, arg, res, res2) ==
    [fn |-> fn, kind |-> kind, arg |-> arg, res |-> res, res2 |-> res2]

\* a placeholder phrase ('unbekannt', 'nicht angegeben', 'n/a', 'null') as the
\* whole text of an address, a postal/city field, a creditor entry or an amount
PLATZHALTER == "unbekannt"

\* result dicts of an extractor, field by field
InfoInputs ==
    [ name    : {<<>>, NAME_OK, NAME_NA},
      adr     : {<<>>, <<"STR">>, <<PLATZHALTER>>},
      plz_ort : {<<>>, <<"PLZ", "ORT">>, <<PLATZHALTER>>},
      gl      : {<<>>, << <<"A">> >>, << <<PLATZHALTER>> >>},
      betrag  : {<<>>, <<"EUR">>, <<PLATZHALTER>>} ]

\* the values gutachten_enrich_notion_page puts into 'Verpflichtende Partei',
\* 'Zustell Adresse', 'Zustell PLZ/Ort', 'Betreibende Partei' and the
\* 'Forderung: ' line of the note; <<>> stands for a field that is not written
text_properties(info) ==
    [ vp      |-> _clean_extracted_name(info.name),
      adr     |-> _clean_extracted_adresse(info.adr),
      plz_ort |-> info.plz_ort,
      gl      |-> info.gl,
      betrag  |-> info.betrag ]

\* what the chat completion gives back: the request fails, the content is
\* no JSON, the content is JSON but a list, a string, a number or null, or
\* it is a JSON object with the fields in data
LlmShapes ==
    {"transport_error", "no_json", "json_list", "json_string", "json_number",
     "json_null", "json_object"}
LlmAnswers ==
    { [shape |-> sh, data |-> EmptyCand] : sh \in LlmShapes \ {"json_object"} }
    \cup { [shape |-> "json_object", data |-> c] : c \in Cand }

\* gutachten_extract_info_llm: the request and json.loads are inside the try,
\* data.get(...) of the return statement is not
gutachten_extract_info_llm(answer) ==
    IF answer.shape \in {"transport_error", "no_json"}
    THEN [raised |-> FALSE, info |-> EmptyCand]
    ELSE IF answer.shape # "json_object"
    THEN [raised |-> TRUE, info |-> EmptyCand]
    ELSE [raised |-> FALSE, info |-> answer.data]

\* gutachten_enrich_notion_page, 'LLM zuerst, Regex als Fallback'
llm_first(answer, regex) ==
    LET r == gutachten_extract_info_llm(answer)
        used_llm == ~r.raised /\ (r.info.name # <<>> \/ r.info.gl)
    IN  [used |-> used_llm, info |-> IF used_llm THEN r.info ELSE regex]

\* ------------------------------------------------------ Telegram messages
\* A message is the list of its lines, text.split("\n"); a line is its
\* number in the message and its length.  The lines carry no HTML tags, so
\* _strip_html_tags leaves their length as it is.
SPLIT_LIMIT == 4000
TELEGRAM_LIMIT == 4096

RECURSIVE SumLen(_)
SumLen(lines) ==
    IF lines = <<>> THEN 0 ELSE Head(lines).len + SumLen(Tail(lines))

\* len("\n".join(lines))
text_len(lines) ==
    IF lines = <<>> THEN 0 ELSE SumLen(lines) + Len(lines) - 1

\* split_message, the loop over text.split("\n")
RECURSIVE split_loop(_, _, _, _)
split_loop(lines, parts, current, current_len) ==
    IF lines = <<>>
    THEN IF current # <<>> THEN Append(parts, current) ELSE parts
    ELSE LET line == Head(lines)
             line_len == line.len + 1
         IN  IF current_len + line_len > SPLIT_LIMIT /\ current # <<>>
             THEN split_loop(Tail(lines), Append(parts, current), <<line>>, line_len)
             ELSE split_loop(Tail(lines), parts, Append(current, line),
                             current_len + line_len)

split_message(text) ==
    IF text_len(text) <= SPLIT_LIMIT THEN <<text>>
    ELSE split_loop(text, <<>>, <<>>, 0)

\* _truncate_plain: how many characters of the text it keeps
_truncate_plain(n) ==
    IF n <= TELEGRAM_LIMIT THEN n ELSE TELEGRAM_LIMIT - 6

\* "\n".join(parts).split("\n")
RECURSIVE JoinParts(_)
JoinParts(parts) ==
    IF parts = <<>> THEN <<>> ELSE Head(parts) \o JoinParts(Tail(parts))

LineLens == {0, 1999, 2000, 4000, 4097}
MaxMsgLines == 3

Messages ==
    UNION { { [i \in 1..k |-> [nr |-> i, len |-> f[i]]] : f \in [1..k -> LineLens] } :
              k \in 1..MaxMsgLines }

FnInputs ==
    { Applied("input", "llm", [answer |-> a, regex |-> c], <<>>, <<>>) :
        a \in LlmAnswers, c \in Cand } \cup
    { Applied("input", "info", x, <<>>, <<>>) : x \in InfoInputs } \cup
    { Applied("input", "name", x, <<>>, <<>>) : x \in NameInputs }
    \cup { Applied("input", "adr", x, <<>>, <<>>) : x \in AdrInputs }
    \cup { Applied("input", "creditors", x, <<>>, <<>>) : x \in CreditorInputs }
    \cup { Applied("input", "grundbuch", x, <<>>, <<>>) : x \in GbInputs }
    \cup { Applied("input", "inline", x, <<>>, <<>>) : x \in InlineLines }
    \cup { Applied("input", "pdfs", x, <<>>, <<>>) : x \in PdfInputs }
    \cup { Applied("input", "section_c", x, <<>>, <<>>) : x \in SectionCOrders }
    \cup { Applied("input", "telegram", x, <<>>, <<>>) : x \in Messages }

FnInit ==
    /\ val \in FnInputs
    /\ store = [r \in Records |-> InertPage]
    /\ doc = [r \in Records |-> "nopdf"]
    /\ llm_on = FALSE
    /\ all_pages = store
    /\ pc = "fn"
    /\ to_enrich = <<>>
    /\ to_vision = <<>>
    /\ enr_pages = <<>>
    /\ fails = 0
    /\ last = NoLast
    /\ sinceNote = [r \in Records |-> 0]
    /\ known_ids = Records
    /\ caps = [text |-> MAX_PER_RUN, vision |-> MAX_VISION]
    /\ n_text = 0
    /\ n_vision = 0

FnFrame ==
    UNCHANGED <<store, doc, llm_on, all_pages, pc, to_enrich, to_vision, enr_pages,
                fails, last, sinceNote, known_ids, caps, n_text, n_vision>>

\* name_clean = _clean_extracted_name(...), and the cleaner applied to its result
clean_name_step ==
    /\ val.fn = "input" /\ val.kind = "name"
    /\ val' = Applied("_clean_extracted_name", "name", val.arg,
                      _clean_extracted_name(val.arg),
                      _clean_extracted_name(_clean_extracted_name(val.arg)))
    /\ FnFrame

clean_adresse_step ==
    /\ val.fn = "input" /\ val.kind = "adr"
    /\ val' = Applied("_clean_extracted_adresse", "adr", val.arg,
                      _clean_extracted_adresse(val.arg),
                      _clean_extracted_adresse(_clean_extracted_adresse(val.arg)))
    /\ FnFrame

gb_parse_creditors_step ==
    /\ val.fn = "input" /\ val.kind = "creditors"
    /\ val' = Applied("_gb_parse_creditors", "creditors", val.arg,
                      _gb_parse_creditors(val.arg, <<>>), <<>>)
    /\ FnFrame

betreibende_partei_step ==
    /\ val.fn = "input" /\ val.kind = "creditors"
    /\ val' = Applied("gl_final", "creditors", val.arg, gl_final(val.arg, <<>>), <<>>)
    /\ FnFrame

llm_lst_step ==
    /\ val.fn = "input" /\ val.kind = "creditors"
    /\ val' = Applied("_lst", "creditors", val.arg, _lst(val.arg), <<>>)
    /\ FnFrame

\* gutachten_enrich_notion_page from 'Nachbereinigung' to the properties dict
text_properties_step ==
    /\ val.fn = "input" /\ val.kind = "info"
    /\ val' = Applied("gutachten_enrich_notion_page", "info", val.arg,
                      text_properties(val.arg), <<>>)
    /\ FnFrame

\* res: what gutachten_extract_info_llm does; res2: the info its caller goes
\* on with
llm_first_step ==
    /\ val.fn = "input" /\ val.kind = "llm"
    /\ val' = Applied("gutachten_extract_info_llm", "llm", val.arg,
                      gutachten_extract_info_llm(val.arg.answer),
                      llm_first(val.arg.answer, val.arg.regex))
    /\ FnFrame

\* res: what gutachten_extract_info returns; res2: what the text tier writes
gb_extract_step ==
    /\ val.fn = "input" /\ val.kind = "grundbuch"
    /\ val' = Applied("gutachten_extract_info", "grundbuch", val.arg,
                      gb_extract_sections(val.arg),
                      text_properties(gb_extract_sections(val.arg)))
    /\ FnFrame

\* res: what gutachten_extract_info returns; res2: what _ist_plz_ort returns
\* for the last part of the line
vp_inline_step ==
    /\ val.fn = "input" /\ val.kind = "inline"
    /\ val' = Applied("gutachten_extract_info", "inline", val.arg, vp_inline(val.arg),
                      _ist_plz_ort(val.arg.last))
    /\ FnFrame

\* res: the choice of main.py; res2: the choice of enricher.py
pick_pdf_step ==
    /\ val.fn = "input" /\ val.kind = "pdfs"
    /\ val' = Applied("gutachten_pick_best_pdf", "pdfs", val.arg,
                      gutachten_pick_best_pdf(val.arg), pick_gutachten_pdf(val.arg))
    /\ FnFrame

\* res: the copy of the text tier; res2: the copy of the vision tier
clean_name_copies_step ==
    /\ val.fn = "input" /\ val.kind = "name"
    /\ val' = Applied("clean_name_copies", "name", val.arg,
                      _clean_extracted_name(val.arg), vision_clean_extracted_name(val.arg))
    /\ FnFrame

\* _gb_parse_creditors(section_c): the creditors and the amount
section_c_step ==
    /\ val.fn = "input" /\ val.kind = "section_c"
    /\ val' = Applied("_gb_parse_creditors", "section_c", val.arg,
                      [gl     |-> _gb_parse_creditors(fuer_names(val.arg), <<>>),
                       betrag |-> _gb_parse_betrag(val.arg)], <<>>)
    /\ FnFrame

\* send_telegram: res the parts split_message returns, res2 for every part
\* the length of the HTML request and the characters the plain-text fallback
\* keeps of it
send_telegram_step ==
    /\ val.fn = "input" /\ val.kind = "telegram"
    /\ LET parts == split_message(val.arg)
       IN  val' = Applied("send_telegram", "telegram", val.arg, parts,
                          [i \in 1..Len(parts) |->
                              [html |-> text_len(parts[i]),
                               plain |-> _truncate_plain(text_len(parts[i]))]])
    /\ FnFrame

FnNext ==
    \/ llm_first_step
    \/ send_telegram_step
    \/ section_c_step
    \/ clean_name_copies_step
    \/ pick_pdf_step
    \/ vp_inline_step
    \/ gb_extract_step
    \/ text_properties_step
    \/ clean_name_step
    \/ clean_adresse_step
    \/ gb_parse_creditors_step
    \/ betreibende_partei_step
    \/ llm_lst_step

FnSpec == FnInit /\ [][FnNext]_vars

\* ------------------------------------------------- runs over several pages
\* The caps of both tiers, scaled to the two pages of the model
BatchCap == 1

\* properties of a page right after notion_create_eintrag
new_page == Page(FALSE, <<>>, "Neu eingelangt", TRUE, FALSE)

\* the same page after a user ticked 'Gutachten automatisch herunterladen?'
flagged_page == Page(FALSE, <<>>, "Neu eingelangt", TRUE, TRUE)

\* the first page of the query order has an attachment that never yields a
\* result, the second one any kind of document
BatchDocs ==
    {d \in [Records -> DocKinds] :
        d["p1"] \in {"corrupt", "nopdf"} /\ d["p2"] \in {"corrupt", "text", "scan"}}

\* An edict that is not in the database yet (not in known_ids) holds the
\* place of its future page with InertPage, which no query returns.
BatchInit ==
    /\ known_ids \in {{"p1"}, {"p1", "p2"}}
    /\ store \in {st \in [Records -> {new_page, flagged_page, InertPage}] :
                    \A r \in Records : st[r] = InertPage <=> r \notin known_ids}
    /\ doc \in BatchDocs
    /\ llm_on \in BOOLEAN
    /\ caps = [text |-> BatchCap, vision |-> BatchCap]
    /\ n_text = 0
    /\ n_vision = 0
    /\ val = NoVal
    /\ all_pages = store
    /\ pc = "idle"
    /\ to_enrich = <<>>
    /\ to_vision = <<>>
    /\ enr_pages = <<>>
    /\ fails = 0
    /\ last = NoLast
    /\ sinceNote = [r \in Records |-> 0]

\* main(): known_ids = notion_load_all_ids(notion, db_id)
main_start ==
    /\ pc = "idle"
    /\ pc' = "scrape"
    /\ n_text' = 0
    /\ n_vision' = 0
    /\ last' = [NoLast EXCEPT !.op = "start"]
    /\ UNCHANGED <<store, doc, llm_on, all_pages, to_enrich, to_vision, enr_pages,
                   fails, sinceNote, known_ids, caps, val>>

\* main(), one item of the result list that is not in known_ids:
\* notion_create_eintrag, then gutachten_enrich_notion_page for the new page
scrape_item ==
    /\ pc = "scrape"
    /\ \E r \in Records \ known_ids :
         \E fault \in Faults(TRUE, doc[r] # "nopdf"), x \in Infos(doc[r]) :
           LET res == enrich_page(new_page, doc[r], fault, x)
               st  == [store EXCEPT ![r] = res.page]
           IN  /\ known_ids' = known_ids \cup {r}
               /\ store' = st
               /\ fails' = IF fault = "none" THEN fails ELSE fails + 1
               /\ sinceNote' = NewSince(st, {})
               /\ last' = [op |-> "enrich_page", rec |-> r, out |-> res.out,
                           ident |-> has_owner_clean(res.cand), complete |-> res.complete,
                           wrote |-> {r}, tried |-> {r}, fixed |-> {}]
    /\ n_text' = n_text + 1
    /\ UNCHANGED <<doc, llm_on, all_pages, pc, to_enrich, to_vision, enr_pages,
                   caps, n_vision, val>>

\* main(): _all_pages = notion_load_all_pages(notion, db_id)
main_load_all_pages ==
    /\ pc = "scrape"
    /\ all_pages' = store
    /\ pc' = "reset"
    /\ last' = [NoLast EXCEPT !.op = "load"]
    /\ UNCHANGED <<store, doc, llm_on, to_enrich, to_vision, enr_pages, fails,
                   sinceNote, known_ids, caps, n_text, n_vision, val>>

BatchNext ==
    \/ main_start
    \/ scrape_item
    \/ main_load_all_pages
    \/ notion_reset_falsche_verpflichtende
    \/ notion_qualitaetscheck
    \/ notion_enrich_gutachten
    \/ gutachten_enrich_notion_page
    \/ notion_enrich_gescannte
    \/ enrich_gescannte_entry
    \/ load_flagged_pages
    \/ enricher_main_page

BatchSpec == BatchInit /\ [][BatchNext]_vars

\* the scheduler starts main.py again and again; a started program runs on
BatchFairSpec == BatchSpec /\ WF_vars(BatchNext) /\ SF_vars(main_start)

\* ------------------------------------- passes that share main()'s _all_pages
\* notion_archiviere_tote_urls: the pages whose URL is requested
tote_url_check(page) ==
    /\ page.phase # "Archiviert"
    /\ ~page.archiviert
    /\ page.link

\* properties written for a page whose URL answers HTTP 404; the note is read
\* with notion.pages.retrieve right before
archiviert_props(page) ==
    [page EXCEPT !.archiviert = TRUE,
                 !.phase = "Archiviert",
                 !.note = Truncate(page.note \o <<"TOT">>)]

\* runs between notion_reset_falsche_verpflichtende and notion_qualitaetscheck
\* on the same all_pages; dead: the checked pages that answer 404 and have no
\* protecting status
notion_archiviere_tote_urls ==
    /\ pc = "qc"
    /\ last.op = "reset"
    /\ LET to_check == {r \in Records : tote_url_check(all_pages[r])}
       IN  \E dead \in SUBSET to_check :
             \E failed \in SUBSET dead :
               /\ fails + Cardinality(failed) <= MaxFails
               /\ fails' = fails + Cardinality(failed)
               /\ LET st == [r \in Records |->
                              IF r \in dead \ failed
                              THEN archiviert_props(store[r]) ELSE store[r]]
                  IN  /\ store' = st
                      /\ sinceNote' = NewSince(st, {})
                      /\ last' = [NoLast EXCEPT !.op = "dead_urls",
                                                !.wrote = dead \ failed]
    /\ UNCHANGED <<doc, llm_on, all_pages, pc, to_enrich, to_vision, enr_pages>>
    /\ UNCHANGED <<known_ids, caps, n_text, n_vision, val>>

\* a colleague moves a new page to 'In Pruefung' in Notion while main.py runs
human_edit ==
    /\ pc # "idle"
    /\ \E r \in Records :
         /\ store[r].phase = "Neu eingelangt"
         /\ store' = [store EXCEPT ![r].phase = "In Pruefung"]
    /\ UNCHANGED <<doc, llm_on, all_pages, pc, to_enrich, to_vision, enr_pages,
                   fails, last, sinceNote, known_ids, caps, n_text, n_vision, val>>

SnapNext ==
    \/ StartRun
    \/ notion_reset_falsche_verpflichtende
    \/ notion_archiviere_tote_urls
    \/ human_edit
    \/ notion_qualitaetscheck
    \/ notion_enrich_gutachten
    \/ gutachten_enrich_notion_page
    \/ notion_enrich_gescannte
    \/ enrich_gescannte_entry

SnapSpec == Init /\ [][SnapNext]_vars

\* main() alone, the dead-URL pass included, nobody editing the pages
MainNext ==
    \/ StartRun
    \/ notion_reset_falsche_verpflichtende
    \/ notion_archiviere_tote_urls
    \/ notion_qualitaetscheck
    \/ notion_enrich_gutachten
    \/ gutachten_enrich_notion_page
    \/ notion_enrich_gescannte
    \/ enrich_gescannte_entry

MainSpec == Init /\ [][MainNext]_vars

\* ------------------------------------------------ restart after a crash
\* One run of main() on one page when no request fails and the attachment
\* yields the same answers x (text tier) and v (vision tier) every time:
\* the court-name sweep and the quality check on the loaded list snap, then
\* the text tier and the vision tier on the store.
sweep_page(snap, page) ==
    IF reset_to_fix(snap) THEN [page EXCEPT !.vp = <<>>, !.analysiert = FALSE]
    ELSE IF reset_to_reanalyze(snap) THEN [page EXCEPT !.analysiert = FALSE]
    ELSE page

qc_page(snap, page) ==
    IF qc_to_reset(snap) THEN [page EXCEPT !.analysiert = FALSE] ELSE page

text_page(page, d, x) ==
    IF enrich_eligible(page) THEN enrich_page(page, d, "none", x).page ELSE page

vision_page(page, d, v) ==
    IF llm_on /\ vision_eligible(page)
    THEN vision_entry(page,
                      [page_id |-> "p1", pdf_url |-> HasBlock(page.note, "PDF"),
                       notizen |-> page.note],
                      d, "none", v).page
    ELSE page

main_run(page, d, x, v) ==
    vision_page(text_page(qc_page(page, sweep_page(page, page)), d, x), d, v)

\* the page as a crash leaves it: after the update of the sweep, of the
\* quality check, of the text tier or of the vision tier
crash_points(page, d, x, v) ==
    LET s1 == sweep_page(page, page)
        s2 == qc_page(page, s1)
        s3 == text_page(s2, d, x)
        s4 == vision_page(s3, d, v)
    IN  {s1, s2, s3, s4}

RestartInit ==
    /\ llm_on \in BOOLEAN
    /\ val \in { Applied("input", "run", [page |-> p, d |-> d, x |-> x, v |-> v], <<>>, <<>>) :
                   p \in InitPages, d \in DocKinds,
                   x \in UNION {Infos(dd) : dd \in DocKinds}, v \in Cand }
    /\ val.arg.x \in Infos(val.arg.d)
    /\ val.arg.v \in VisionResults(val.arg.d)
    /\ store = [r \in Records |-> IF r = "p1" THEN val.arg.page ELSE InertPage]
    /\ doc = [r \in Records |-> IF r = "p1" THEN val.arg.d ELSE "nopdf"]
    /\ all_pages = store
    /\ pc = "fn"
    /\ to_enrich = <<>>
    /\ to_vision = <<>>
    /\ enr_pages = <<>>
    /\ fails = 0
    /\ last = NoLast
    /\ sinceNote = [r \in Records |-> 0]
    /\ known_ids = Records
    /\ caps = [text |-> MAX_PER_RUN, vision |-> MAX_VISION]
    /\ n_text = 0
    /\ n_vision = 0

\* res: the page after an uninterrupted run; res2: for every crash point the
\* page after a fresh run that starts from it
main_restart_step ==
    /\ val.fn = "input" /\ val.kind = "run"
    /\ LET a == val.arg
       IN  val' = Applied("main", "run", a,
                          main_run(a.page, a.d, a.x, a.v),
                          { [crash |-> c, final |-> main_run(c, a.d, a.x, a.v)] :
                              c \in crash_points(a.page, a.d, a.x, a.v) })
    /\ FnFrame

RestartNext ==
    \/ main_restart_step

RestartSpec == RestartInit /\ [][RestartNext]_vars

\* ------------------------------------------- the scraper and the database
\* main(), step 1 and 2, over several runs.  In this specification store is
\* the list of the pages of the database in the order notion.search returns
\* them, known_ids is the dict of main(), val.arg the result list still to
\* process, val.res the ids of the pages created in this run and whether all
\* ids were loaded, val.res2 the number of the run.
Eids == {"e1", "e2"}

DbPage(id, eid, status, phase, archiviert) ==
    [id |-> id, eid |-> eid, status |-> status, phase |-> phase,
     archiviert |-> archiviert, art |-> "Versteigerung", neu |-> FALSE]

\* the value of known_ids[eid]: a page id or one of the sentinels
Known(kind, id) == [kind |-> kind, id |-> id]
Absent == Known("absent", 0)

\* notion_load_all_ids, the body of the loop over the pages of one response
known_entry(page, known) ==
    LET ist_rot == page.status = "Rot"
        ist_geschuetzt ==
            ~ist_rot /\ (page.phase \in GESCHUETZT_PHASEN
                           \/ page.status \in {"Gruen", "Gelb"})
    IN  IF ist_geschuetzt
        THEN [known EXCEPT ![page.eid] = Known("(geschuetzt)", 0)]
        ELSE [known EXCEPT ![page.eid] = Known("page", page.id)]

RECURSIVE notion_load_all_ids(_, _)
notion_load_all_ids(pages, known) ==
    IF pages = <<>> THEN known
    ELSE notion_load_all_ids(Tail(pages), known_entry(Head(pages), known))

\* notion_create_eintrag: the properties of the page it creates
created_page(id, eid) ==
    [id |-> id, eid |-> eid, status |-> "", phase |-> "Neu eingelangt",
     archiviert |-> FALSE, art |-> "Versteigerung", neu |-> TRUE]

SCHUTZ_PHASEN ==
    { "In Pruefung", "Relevant - Brief vorbereiten", "Brief versendet",
      "Gutachten analysiert" }

\* notion_mark_entfall once the page was read
notion_mark_entfall(page) ==
    IF page.archiviert
    THEN [page EXCEPT !.art = "Entfall des Termins"]
    ELSE IF page.status = "Rot"
    THEN [page EXCEPT !.art = "Entfall des Termins", !.archiviert = TRUE,
                      !.neu = FALSE]
    ELSE IF page.status \in {"Gruen", "Gelb"}
    THEN [page EXCEPT !.art = "Entfall des Termins", !.neu = FALSE]
    ELSE IF page.phase \in SCHUTZ_PHASEN
    THEN [page EXCEPT !.art = "Entfall des Termins", !.neu = FALSE]
    ELSE [page EXCEPT !.art = "Entfall des Termins", !.archiviert = TRUE,
                      !.phase = "Archiviert", !.neu = FALSE]

Item(type, eid) == [type |-> type, eid |-> eid]

\* the result lists of fetch_results_for_state the runs are given
Listings ==
    { <<Item("Versteigerung", "e1")>>,
      <<Item("Entfall des Termins", "e1")>>,
      <<Item("Versteigerung", "e1"), Item("Versteigerung", "e1")>>,
      <<Item("Versteigerung", "e1"), Item("Entfall des Termins", "e1")>>,
      <<Item("Versteigerung", "e2"), Item("Entfall des Termins", "e2")>> }

MaxRuns == 2

ScrapeStatus == {"", "Rot", "Gruen", "Gelb"}
ScrapePhases == { <<"Neu eingelangt", FALSE>>, <<"In Pruefung", FALSE>>,
                  <<"Gekauft", FALSE>>, <<"Archiviert", TRUE>> }

\* the databases a run may find: at most one page per edict
ScrapeDbs ==
    LET first == { <<DbPage(1, "e1", s, ph[1], ph[2])>> :
                       s \in ScrapeStatus, ph \in ScrapePhases }
    IN  {<<>>} \cup first
          \cup { Append(db, DbPage(2, "e2", "", "Neu eingelangt", FALSE)) : db \in first }

ScrapeLast(op, eid, fault) ==
    [NoLast EXCEPT !.op = op, !.rec = eid, !.out = fault]

ScrapeInit ==
    /\ store \in ScrapeDbs
    /\ val \in { Applied("main", "scrape", l, [created |-> <<>>, complete |-> FALSE], 1) :
                   l \in Listings }
    /\ known_ids = [e \in Eids |-> Absent]
    /\ pc = "load_ids"
    /\ doc = [r \in Records |-> "nopdf"]
    /\ llm_on = FALSE
    /\ all_pages = <<>>
    /\ to_enrich = <<>>
    /\ to_vision = <<>>
    /\ enr_pages = <<>>
    /\ fails = 0
    /\ last = NoLast
    /\ sinceNote = [r \in Records |-> 0]
    /\ caps = [text |-> MAX_PER_RUN, vision |-> MAX_VISION]
    /\ n_text = 0
    /\ n_vision = 0

ScrapeFrame ==
    UNCHANGED <<doc, llm_on, all_pages, to_enrich, to_vision, enr_pages,
                fails, sinceNote, caps, n_text, n_vision>>

\* main(): known_ids = notion_load_all_ids(notion, db_id).  One page of the
\* model stands for one response of notion.search; a request that raises
\* ends the loop with the ids of the first n pages only.
main_load_ids ==
    /\ pc = "load_ids"
    /\ \E n \in 0..Len(store) :
          /\ known_ids' = notion_load_all_ids(SubSeq(store, 1, n),
                                              [e \in Eids |-> Absent])
          /\ val' = [val EXCEPT !.res.complete = (n = Len(store))]
          /\ last' = ScrapeLast("load_ids", "-",
                                IF n = Len(store) THEN "ok" ELSE "error")
    /\ pc' = "items"
    /\ UNCHANGED store
    /\ ScrapeFrame

\* main(), one item of type 'Versteigerung'
main_versteigerung ==
    /\ pc = "items" /\ val.arg # <<>>
    /\ Head(val.arg).type = "Versteigerung"
    /\ LET eid == Head(val.arg).eid
       IN  IF known_ids[eid].kind = "(geschuetzt)"
           THEN /\ UNCHANGED <<store, known_ids>>
                /\ val' = [val EXCEPT !.arg = Tail(val.arg)]
                /\ last' = ScrapeLast("versteigerung", eid, "geschuetzt")
           ELSE IF known_ids[eid] = Absent
           THEN \/ /\ store' = Append(store, created_page(Len(store) + 1, eid))
                   /\ known_ids' = [known_ids EXCEPT ![eid] = Known("(neu)", 0)]
                   /\ val' = [val EXCEPT !.arg = Tail(val.arg),
                                         !.res.created = Append(@, eid)]
                   /\ last' = ScrapeLast("versteigerung", eid, "created")
                \/ /\ known_ids' = [known_ids EXCEPT ![eid] = Known("(gefiltert)", 0)]
                   /\ val' = [val EXCEPT !.arg = Tail(val.arg)]
                   /\ last' = ScrapeLast("versteigerung", eid, "gefiltert")
                   /\ UNCHANGED store
                \/ /\ val' = [val EXCEPT !.arg = Tail(val.arg)]
                   /\ last' = ScrapeLast("versteigerung", eid, "error")
                   /\ UNCHANGED <<store, known_ids>>
           ELSE /\ UNCHANGED <<store, known_ids>>
                /\ val' = [val EXCEPT !.arg = Tail(val.arg)]
                /\ last' = ScrapeLast("versteigerung", eid, "vorhanden")
    /\ UNCHANGED pc
    /\ ScrapeFrame

\* main(), one item of type 'Entfall des Termins'
main_entfall ==
    /\ pc = "items" /\ val.arg # <<>>
    /\ Head(val.arg).type = "Entfall des Termins"
    /\ LET eid == Head(val.arg).eid
           page_id == known_ids[eid]
       IN  IF page_id.kind = "page"
           THEN \/ /\ store' = [store EXCEPT ![page_id.id] = notion_mark_entfall(@)]
                   /\ last' = ScrapeLast("entfall", eid, "marked")
                \/ /\ UNCHANGED store
                   /\ last' = ScrapeLast("entfall", eid, "error")
           ELSE IF page_id.kind = "(geschuetzt)"
           THEN /\ UNCHANGED store
                /\ last' = ScrapeLast("entfall", eid, "uebersprungen")
           ELSE /\ UNCHANGED store
                /\ last' = ScrapeLast("entfall", eid, "ohne DB-Eintrag")
    /\ val' = [val EXCEPT !.arg = Tail(val.arg)]
    /\ UNCHANGED <<pc, known_ids>>
    /\ ScrapeFrame

\* the result lists are exhausted: the run is over
main_scrape_done ==
    /\ pc = "items" /\ val.arg = <<>>
    /\ pc' = "run_done"
    /\ last' = ScrapeLast("run_done", "-", "-")
    /\ UNCHANGED <<store, known_ids, val>>
    /\ ScrapeFrame

\* the next scheduled run of main()
main_next_run ==
    /\ pc = "run_done" /\ val.res2 < MaxRuns
    /\ \E l \in Listings :
          val' = Applied("main", "scrape", l,
                         [created |-> <<>>, complete |-> FALSE], val.res2 + 1)
    /\ known_ids' = [e \in Eids |-> Absent]
    /\ pc' = "load_ids"
    /\ last' = ScrapeLast("start", "-", "-")
    /\ UNCHANGED store
    /\ ScrapeFrame

ScrapeNext ==
    \/ main_load_ids
    \/ main_versteigerung
    \/ main_entfall
    \/ main_scrape_done
    \/ main_next_run

ScrapeSpec == ScrapeInit /\ [][ScrapeNext]_vars

\* ------------------------------------------------------------ the letters
\* notion_brief_erstellen over several runs of main().  In this
\* specification store maps a page id to the properties the function reads,
\* to_enrich is its to_process list, val.arg says whether the database has
\* the date property 'Brief erstellt am', val.res counts per page the
\* letters written and the e-mails sent (history), val.res2 is the number of
\* the run.
ZIEL_PHASE == "Relevant - Brief vorbereiten"

\* pflicht: owner, delivery address and a Bundesland with a contact are set;
\* voll: the note already fills the 2000 characters a note is cut to
BriefPage(phase, pflicht, voll) ==
    [phase |-> phase, pflicht |-> pflicht, voll |-> voll,
     brief_datum |-> FALSE, marker |-> FALSE]

BriefPages ==
    { BriefPage(ph, pf, v) :
        ph \in {ZIEL_PHASE, "In Pruefung"}, pf \in BOOLEAN, v \in BOOLEAN }

\* notion_brief_erstellen: the test that puts a page on to_process
brief_selected(page) ==
    /\ page.phase = ZIEL_PHASE
    /\ ~page.brief_datum
    /\ ~page.marker

\* neue_notiz = (notizen_alt + marker)[:2000]
neue_notiz_marker(page) == page.marker \/ ~page.voll

\* the outcomes of the two pages.update calls
UpdateOutcomes(has_field) ==
    IF has_field THEN {"ok", "error"}
    ELSE {"note_ok", "note_error"}

BriefCount == [r \in Records |-> 0]

BriefInit ==
    /\ store \in [Records -> BriefPages]
    /\ val \in { Applied("notion_brief_erstellen", "brief", [has_field |-> h],
                         [briefe |-> BriefCount, mails |-> BriefCount], 1) :
                   h \in BOOLEAN }
    /\ pc = "brief_sel"
    /\ all_pages = store
    /\ to_enrich = <<>>
    /\ known_ids = Records
    /\ doc = [r \in Records |-> "nopdf"]
    /\ llm_on = FALSE
    /\ to_vision = <<>>
    /\ enr_pages = <<>>
    /\ fails = 0
    /\ last = NoLast
    /\ sinceNote = [r \in Records |-> 0]
    /\ caps = [text |-> MAX_PER_RUN, vision |-> MAX_VISION]
    /\ n_text = 0
    /\ n_vision = 0

BriefFrame ==
    UNCHANGED <<doc, llm_on, to_vision, enr_pages, fails, sinceNote,
                known_ids, caps, n_text, n_vision>>

\* notion_brief_erstellen, the selection loop over the pages main() loaded
notion_brief_erstellen ==
    /\ pc = "brief_sel"
    /\ all_pages' = store
    /\ to_enrich' = SelectSeq(PageOrder, LAMBDA r : brief_selected(store[r]))
    /\ pc' = "brief"
    /\ last' = [NoLast EXCEPT !.op = "brief_sel"]
    /\ UNCHANGED <<store, val>>
    /\ BriefFrame

\* notion_brief_erstellen, one page of to_process
brief_page ==
    /\ pc = "brief" /\ to_enrich # <<>>
    /\ LET r == Head(to_enrich)
           page == all_pages[r]
       IN  IF ~page.pflicht
           THEN /\ UNCHANGED <<store, val>>
                /\ last' = [NoLast EXCEPT !.op = "brief_page", !.rec = r,
                                          !.out = "uebersprungen"]
           ELSE \/ \* _brief_fill_template or the file write raises
                   /\ UNCHANGED <<store, val>>
                   /\ last' = [NoLast EXCEPT !.op = "brief_page", !.rec = r,
                                             !.out = "fehler"]
                \/ \E email_ok \in BOOLEAN, u \in UpdateOutcomes(val.arg.has_field) :
                      /\ val' = [val EXCEPT
                                   !.res.briefe[r] = @ + 1,
                                   !.res.mails[r] = IF email_ok THEN @ + 1 ELSE @]
                      /\ store' =
                            IF u = "ok"
                            THEN [store EXCEPT ![r].brief_datum = TRUE,
                                               ![r].marker = neue_notiz_marker(page)]
                            ELSE IF u = "note_ok"
                            THEN [store EXCEPT ![r].marker = neue_notiz_marker(page)]
                            ELSE store
                      /\ last' = [NoLast EXCEPT !.op = "brief_page", !.rec = r,
                                                !.out = u, !.ident = email_ok]
    /\ to_enrich' = Tail(to_enrich)
    /\ UNCHANGED <<pc, all_pages>>
    /\ BriefFrame

\* the run is over; the next scheduled run of main() starts
brief_next_run ==
    /\ pc = "brief" /\ to_enrich = <<>>
    /\ val.res2 < MaxRuns
    /\ val' = [val EXCEPT !.res2 = @ + 1]
    /\ pc' = "brief_sel"
    /\ last' = [NoLast EXCEPT !.op = "start"]
    /\ UNCHANGED <<store, all_pages, to_enrich>>
    /\ BriefFrame

BriefNext ==
    \/ notion_brief_erstellen
    \/ brief_page
    \/ brief_next_run

BriefSpec == BriefInit /\ [][BriefNext]_vars

\* ------------------------------------------------------------- properties
Terminal(p) == ANALYZED_COMPLETE(p) \/ UNREADABLE(p)

\* the note carries one of the scanned / unreadable / no-PDF remarks
Marked(note) ==
    \E b \in {"SCAN", "VIS", "ENRSCAN", "FINAL", "KEINPDF"} : HasBlock(note, b)

SweepOps == {"reset", "qc"}
AnalysisOps == {"enrich_page", "vision_entry", "enricher_page"}

\* C1: a record that is UNREADABLE (analysed, no identity data, note 'Kein PDF
\* ...' or 'Endgueltig unleserlich ...') never has 'Gutachten analysiert?' set
\* back to false by a step of the pipeline.
C1_UnreadableNeverReset ==
    [][\A r \in Records : UNREADABLE(store[r]) => store'[r].analysiert]_vars

\* C2: a record whose note carries the permanent-unreadable remark of the
\* vision pass is never again in the work list of the text enrichment or of
\* the vision pass.
C2_FinalNeverSelected ==
    \A r \in Records :
        HasBlock(store[r].note, "FINAL") =>
            /\ \A i \in 1..Len(to_enrich) : to_enrich[i] # r
            /\ \A i \in 1..Len(to_vision) : to_vision[i].page_id # r

\* C3: while the note of a record stays the same, the sweep passes (second
\* pass of notion_reset_falsche_verpflichtende, notion_qualitaetscheck) set it
\* from analysed to not analysed at most once.
C3_DemotedAtMostOnce == \A r \in Records : sinceNote[r] <= 1

\* C4: under repeated runs every record with a link and outside the protected
\* phases is eventually ANALYZED_COMPLETE or UNREADABLE for good.
C4_Convergence ==
    <>[](\A r \in Records :
            (store[r].link /\ store[r].phase \notin GESCHUETZT_PHASEN)
                => Terminal(store[r]))

\* C5: a sweep pass that sets a record from analysed to not analysed, the
\* court-name repair aside, does so only for a record that is
\* ANALYZED_INCOMPLETE and whose note has no scanned / unreadable remark.
C5_SweepDemotesOnlyIncomplete ==
    [][\A r \in Records :
          ( /\ last'.op \in SweepOps
            /\ r \notin last'.fixed
            /\ store[r].analysiert /\ ~store'[r].analysiert )
          => (ANALYZED_INCOMPLETE(store[r]) /\ ~Marked(store[r].note))]_vars

\* C6: a step of the pipeline on a record that is ANALYZED_COMPLETE or
\* UNREADABLE, the court-name repair aside, writes nothing to that record,
\* makes no extraction attempt for it, and changes none of its fields.
C6_TerminalUntouched ==
    [][\A r \in Records :
          (Terminal(store[r]) /\ ~reset_to_fix(store[r]))
          => ( /\ r \notin last'.wrote
               /\ r \notin last'.tried
               /\ store'[r] = store[r] )]_vars

\* C7: whenever an enrichment entry point has found that the detail page of a
\* record lists no PDF, the record is UNREADABLE afterwards.
C7_NoPdfBecomesUnreadable ==
    \A r \in Records :
        (last.rec = r /\ last.op \in AnalysisOps /\ last.out = "no_pdf")
            => UNREADABLE(store[r])

\* C8: whenever the text enrichment or the vision pass of main.py has written
\* an analysis result, its decision whether the record has identity data
\* equals 'name non-empty or address non-empty' evaluated on the cleaned
\* values.
C8_IdentityOnCleanedValues ==
    (last.op \in {"enrich_page", "vision_entry"} /\ last.out \in {"written", "unleserlich"})
        => (last.complete = last.ident)

\* C9: a step in which fetching the detail page or downloading the PDF fails
\* writes neither owner name nor address nor note; after it the record of the
\* text enrichment and of the standalone enricher is not analysed and still
\* selected by that entry point, and the vision pass has written nothing.
C9_TransportErrorNoPartialWrite ==
    [][\A r \in Records :
          (last'.rec = r /\ last'.out \in {"fetch_error", "download_error"})
          => ( /\ store'[r].vp = store[r].vp
               /\ store'[r].adr = store[r].adr
               /\ store'[r].note = store[r].note
               /\ last'.op = "enrich_page"
                    => (NOT_ANALYZED(store'[r]) /\ enrich_eligible(store'[r]))
               /\ last'.op = "enricher_page"
                    => (NOT_ANALYZED(store'[r]) /\ flagged(store'[r]))
               /\ last'.op = "vision_entry" => store'[r] = store[r] )]_vars

\* the download of the PDF has just failed in the text enrichment
C9_Witness ==
    \E r \in Records :
        /\ last.rec = r
        /\ last.op = "enrich_page"
        /\ last.out = "download_error"
        /\ NOT_ANALYZED(store[r])
        /\ enrich_eligible(store[r])

\* C10: after an attempt of the text enrichment in which the PDF could not be
\* opened or read or the parser raised, the record is analysed
\* (ANALYZED_INCOMPLETE or UNREADABLE).
C10_ParseErrorNotLeftUnanalysed ==
    \A r \in Records :
        ( /\ last.rec = r
          /\ last.op = "enrich_page"
          /\ last.out \in {"pdf_text_error", "parse_error"} )
            => store[r].analysiert


\* C11: a record with a text PDF for which the text enrichment has written a
\* result without identity data is ANALYZED_INCOMPLETE and is one the sweep
\* (second pass of the repair, or the quality check) selects for a retry.
C11_IncompleteStaysSweepEligible ==
    \A r \in Records :
        ( /\ last.rec = r
          /\ last.op = "enrich_page"
          /\ last.out = "written"
          /\ ~last.complete
          /\ doc[r] = "text" )
        => ( /\ ANALYZED_INCOMPLETE(store[r])
             /\ (reset_to_reanalyze(store[r]) \/ qc_to_reset(store[r])) )

\* C13: the vision pass sends the pages of a document to GPT-4o only if the
\* document is a scan, that is, has no extractable text.
C13_VisionOnlyForScans ==
    \A r \in Records :
        ( /\ last.rec = r
          /\ last.op = "vision_entry"
          /\ last.out \in {"unleserlich", "written", "update_error"}
          /\ doc[r] \in {"text", "scan", "unparsable"} )
        => doc[r] = "scan"

\* C18: once the court-name repair has cleared the owner of a record, the
\* owner of that record never matches the court-name pattern again.
C18_CourtNameRepairedOnce ==
    \A r \in Records :
        []( (last.op = "reset" /\ r \in last.fixed) => [](~reset_to_fix(store[r])) )


\* C19: a creditor list produced by any tier has no two entries that are equal
\* after the registry number "(FN ...)" is stripped.
C19_CreditorsDeduplicated ==
    (val.kind = "creditors" /\ val.fn # "input")
        => \A i, j \in 1..Len(val.res) :
              i # j => _gl_normalize(val.res[i]) # _gl_normalize(val.res[j])

\* C20: cleaning an already cleaned owner name or address returns it unchanged.
C20_ValidatorIdempotent ==
    (val.fn \in {"_clean_extracted_name", "_clean_extracted_adresse"})
        => val.res2 = val.res

\* C12: a failure while handling one record never aborts the run: whenever a
\* batch loop handles the head of a queue that holds further records, the
\* program goes on with the rest of that queue.
C12_FailureNeverAbortsTheRun ==
    [][ /\ (pc = "enrich" /\ Len(to_enrich) > 1
              => pc' = "enrich" /\ to_enrich' = Tail(to_enrich))
        /\ (pc = "vision" /\ Len(to_vision) > 1
              => pc' = "vision" /\ to_vision' = Tail(to_vision))
        /\ (pc = "enricher" /\ Len(enr_pages) > 1
              => pc' = "enricher" /\ enr_pages' = Tail(enr_pages)) ]_vars

\* C14: in a run the text tier analyses at most caps.text documents, counting
\* every call of gutachten_enrich_notion_page, and the vision tier sends at
\* most caps.vision requests.
C14_PerRunCaps ==
    n_text <= caps.text /\ n_vision <= caps.vision

\* C15: a page that is eligible for the text tier is eventually attempted or
\* stops being eligible; likewise for the vision tier.
C15_CappedRecordEventuallyProcessed ==
    \A r \in Records :
        /\ (r \in known_ids /\ enrich_eligible(store[r]))
              ~> (r \in last.tried \/ ~enrich_eligible(store[r]))
        /\ (llm_on /\ vision_eligible(store[r]))
              ~> (r \in last.tried \/ ~vision_eligible(store[r]))

\* C16: a pass acts on the state a page has in the store at that moment: a
\* page that is archived or in a protected phase when the court-name sweep or
\* the quality check writes (archived by the dead-URL pass or re-phased by a
\* colleague earlier in the run) is not reset by them.
C16_EligibilityFromCurrentState ==
    [][ /\ (pc = "reset" /\ pc' = "qc"
              => \A r \in last'.wrote : store[r].phase \notin GESCHUETZT_PHASEN)
        /\ (pc = "qc" /\ pc' = "enrich_sel"
              => \A r \in last'.wrote :
                    ~store[r].archiviert /\ store[r].phase \notin GESCHUETZT_PHASEN) ]_vars

C21_NonCreditorsDropped ==
    (val.kind = "creditors" /\ val.fn # "input")
        => \A i \in 1..Len(val.res) : ~_gl_rejected(val.res[i])

\* C22: no field written to a record holds a placeholder phrase: the owner
\* name, the address, the postal/city field, every creditor entry and the
\* amount are either a found value or empty.
C22_NoPlaceholderWritten ==
    (val.kind = "info" /\ val.fn # "input")
        => /\ lower(strip(val.res.vp)) \notin INVALID_NAMES
           /\ val.res.adr # <<PLATZHALTER>>
           /\ val.res.plz_ort # <<PLATZHALTER>>
           /\ \A i \in 1..Len(val.res.gl) : val.res.gl[i] # <<PLATZHALTER>>
           /\ val.res.betrag # <<PLATZHALTER>>

\* C23: gutachten_extract_info_llm never raises; on a failed request, on
\* content that is no JSON and on JSON that is no object it returns the empty
\* candidate, and its caller goes on with the pattern extractor's result.
C23_LlmNeverRaises ==
    val.fn = "gutachten_extract_info_llm"
        => /\ ~val.res.raised
           /\ (val.arg.answer.shape # "json_object"
                 => val.res.info = EmptyCand /\ val.res2.info = val.arg.regex)

\* C24: for the Scenario A text the text tier writes the owner 'Maria Muster',
\* the address 'Hauptstrasse 5', the postal code '8010', the creditors
\* ['Bank X AG'] and the amount exactly as it stands, 'EUR 150.000,--'.
C24_ScenarioA ==
    (val.fn = "gutachten_extract_info" /\ val.kind = "grundbuch" /\ val.arg = ScenarioA)
        => /\ val.res2.vp = MARIA_MUSTER
           /\ val.res2.adr = <<"STR">>
           /\ val.res2.plz_ort = <<"8010">>
           /\ val.res2.gl = << <<"A">> >>
           /\ val.res2.betrag = EUR_150_000

\* the names of the entries in first-seen order, each once
RECURSIVE FirstSeen(_, _)
FirstSeen(names, acc) ==
    IF names = <<>> THEN acc
    ELSE FirstSeen(Tail(names),
                   IF \E i \in 1..Len(acc) : acc[i] = Head(names)
                   THEN acc ELSE Append(acc, Head(names)))

\* C27: for a Section B with several share-marker lines _gb_parse_owner
\* returns the names found, each once, joined with ' | ' in first-seen order,
\* and the address, postal code and birthdate of the first owner: those of
\* the first owner's own GEB/ADR line, or nothing if that owner has none,
\* never those of a later owner.
C27_AddressOfFirstOwner ==
    (val.fn = "gutachten_extract_info" /\ val.kind = "grundbuch"
       /\ Len(val.arg.b) >= 2 /\ val.arg.b[1].gap = 0)
        => LET b     == val.arg.b
               own   == AdrLineOf(b[1].name)
               found == [adresse |-> val.res.adr, plz_ort |-> val.res.plz_ort,
                         geb |-> val.res.geb]
               first == [adresse |-> own.adr, plz_ort |-> own.plz, geb |-> own.geb]
               none  == [adresse |-> <<>>, plz_ort |-> <<>>, geb |-> ""]
           IN  /\ val.res.name = JoinNamen(FirstSeen([i \in 1..Len(b) |-> b[i].name], <<>>))
               /\ found \in {first, none}
               /\ (b[1].adr => found = first)

\* C30: the owner-name scan examines the 8 lines that follow a share marker:
\* when the 7 lines after the marker are no names (empty, continuation,
\* separator, page footer) and the 8th line is the owner's name, that name is
\* returned.
C30_NameOnEighthLine ==
    (val.fn = "gutachten_extract_info" /\ val.kind = "grundbuch"
       /\ val.arg.b[1].gap = 7)
        => startswith(val.res.name, val.arg.b[1].name)

\* C25: for a text that is the line 'Verpflichtete Partei: <name>, <street>,
\* <postal city>' the pattern extractor returns <name> as the owner, <street>
\* as the address and <postal city> as the postal/city field.
C25_InlineForm ==
    (val.fn = "gutachten_extract_info" /\ val.kind = "inline")
        => /\ val.res.name = val.arg.name
           /\ val.res.adr = val.arg.street
           /\ val.res.plz_ort = PlzOrtText(val.arg.last)

\* C26: the attachment chosen is the first whose file name contains an
\* appraisal keyword; if there is none, the first whose file name does not
\* contain 'anlagen'; if there is none, the first; for the empty list there
\* is none; and main.py and enricher.py choose the same attachment.
C26_AttachmentSelection ==
    val.fn = "gutachten_pick_best_pdf"
        => LET pdfs == val.arg
               K == { i \in 1..Len(pdfs) : any_kw(pdfs[i], PREFERRED) }
               A == { i \in 1..Len(pdfs) : ~contains(lower(pdfs[i]), ANLAGEN) }
           IN  /\ val.res = IF pdfs = <<>> THEN 0
                            ELSE IF K # {} THEN MinOf(K)
                            ELSE IF A # {} THEN MinOf(A)
                            ELSE 1
               /\ val.res2 = val.res

\* an annex first, a plan second, the appraisal third: the third is chosen
C26_Witness ==
    /\ val.fn = "gutachten_pick_best_pdf"
    /\ val.arg = <<ANLAGEN_PDF, PLAN_PDF, GUTACHTEN_PDF>>
    /\ val.res = 3
    /\ val.res2 = 3

\* C28: the text tier writes a record as ownerless (scanned note) only after
\* the pattern extractor was run on its text: whenever the language model
\* returns no owner name, creditors or not, the pattern extractor's result is
\* what the record is written from.
C28_PatternExtractorConsulted ==
    val.fn = "gutachten_extract_info_llm"
        => /\ (~has_owner_clean(val.res2.info) => ~val.res2.used)
           /\ (val.res.info.name = <<>> => val.res2.info = val.arg.regex)

\* C29: the name validator returns the empty name for a placeholder phrase,
\* for a name that begins with ')', ']', '}' or '>', for a name that ends
\* with a hyphen and for a name without a letter, and the name itself
\* otherwise; the copy of the text tier and the copy of the vision tier
\* return the same for every name.
C29_NameValidatorCopiesAgree ==
    val.fn = "clean_name_copies"
        => LET name == val.arg
               rejected ==
                   \/ name = <<>>
                   \/ lower(strip(name)) \in INVALID_NAMES
                   \/ name[1] \in {")", "]", "}", ">"}
                   \/ (rstrip(name) # <<>> /\ rstrip(name)[Len(rstrip(name))] = "-")
                   \/ ~ \E i \in 1..Len(name) : isalpha(name[i])
           IN  /\ val.res = (IF rejected THEN <<>> ELSE name)
               /\ val.res2 = val.res

\* C31: _gb_parse_creditors returns each distinct creditor of a 'fuer' line
\* once, in line order, and the amount of the first line of Section C that
\* matches one of the two phrasings ('Hereinbringung von EUR ...',
\* 'PFANDRECHT Hoechstbetrag EUR ...'), whichever phrasing that line has.
C31_FirstAmountInLineOrder ==
    (val.fn = "_gb_parse_creditors" /\ val.kind = "section_c")
        => LET lines == val.arg
               hits  == { i \in 1..Len(lines) :
                            lines[i].k \in {"HEREIN", "PFAND"}
                            /\ betrag_match(lines[i].text) # <<>> }
           IN  /\ val.res.gl = FirstSeen(fuer_names(lines), <<>>)
               /\ val.res.betrag = IF hits = {} THEN <<>>
                                   ELSE betrag_match(lines[MinOf(hits)].text)

\* C32: _ist_plz_ort recognises every 4-digit and every 5-digit postal code
\* that is followed by a capitalised locality, the codes 1900-2099 and
\* 19000-20999 included, so that the line 'name, street, postal city' yields
\* an owner, an address and a postal/city field.
C32_EveryPostalCodeRecognised ==
    (val.fn = "gutachten_extract_info" /\ val.kind = "inline")
        => /\ val.res2.plz = val.arg.last.plz
           /\ startswith(val.res.plz_ort,
                         (IF val.arg.last.d THEN <<"D", "-">> ELSE <<>>) \o val.arg.last.plz)
           /\ val.res.adr # <<>>
           /\ startswith(val.arg.name, val.res.name)

\* C33: no analysis pass of main() (court-name/address sweep, quality check,
\* text enrichment, vision pass) writes to a record whose workflow phase is a
\* protected one: its flag, owner fields and note stay as they are.
C33_ProtectedPhaseUntouched ==
    [][ (pc \in {"reset", "qc", "enrich_sel", "enrich", "vision_sel", "vision"}
           /\ last'.op # "dead_urls")
          => \A r \in Records :
                store[r].phase \in GESCHUETZT_PHASEN => store'[r] = store[r] ]_vars

\* the pages of the database that carry the Hash-ID eid
PagesOf(eid) == { i \in 1..Len(store) : store[i].eid = eid }

\* C34: when a run whose id load and page read succeeded meets an 'Entfall
\* des Termins' notice whose id matches a stored record, then a record with
\* status Gruen or Gelb gets 'Art des Edikts' = 'Entfall des Termins' and is
\* not archived by it, and a record with status Rot is archived whatever
\* its phase
C34_EntfallRecorded ==
    [][ (last'.op = "entfall" /\ last'.out # "error" /\ val.res.complete)
          => \A i \in PagesOf(last'.rec) :
                /\ store[i].status \in {"Gruen", "Gelb"}
                      => /\ store'[i].art = "Entfall des Termins"
                         /\ store'[i].archiviert = store[i].archiviert
                /\ store[i].status = "Rot" => store'[i].archiviert ]_vars

\* C35: a 'Versteigerung' listing whose id is the Hash-ID of a page of the
\* database creates no page, in every run, whether or not the ids were
\* loaded completely; hence at most one page per id within a run
C35_NoSecondRecord ==
    [][ (last'.op = "versteigerung" /\ PagesOf(last'.rec) # {})
          => store' = store ]_vars

\* C36: over any number of runs at most one letter is generated and at most
\* one e-mail is sent per record, whatever became of the store update that
\* marks the record
C36_OneLetterPerRecord ==
    \A r \in Records :
        (val.fn = "notion_brief_erstellen")
            => (val.res.briefe[r] <= 1 /\ val.res.mails[r] <= 1)

\* C37: split_message loses and reorders nothing (the parts joined with
\* newline are the message, every part is a run of whole lines), every part
\* and so every HTML request has at most 4096 characters, and the plain-text
\* fallback keeps every character of a part
C37_SplitKeepsMessageWithinLimit ==
    (val.fn = "send_telegram")
        => /\ JoinParts(val.res) = val.arg
           /\ \A i \in 1..Len(val.res) :
                 /\ val.res2[i].html <= TELEGRAM_LIMIT
                 /\ val.res2[i].plain = val.res2[i].html

====
